---- MODULE Spec2Model ----
(***************************************************************************)
(* Franchise lineage registry and relocation annotators of the MLB         *)
(* relocation analysis scripts (scripts/franchise_mapping.py and           *)
(* scripts/corrected_franchise_mapping.py).                                *)
(*                                                                         *)
(* Two specifications:                                                     *)
(*   SpecRegistry  construction of a mapper (__init__) from a lineage      *)
(*                 table and identifier lookups on the built mapper;       *)
(*   Spec          the two annotators, create_annotated_dataset and        *)
(*                 get_analysis_ready_data, applied to a season table by   *)
(*                 a mapper that has been constructed.                     *)
(*                                                                         *)
(* Python values: None is the empty tuple <<>> and a present value x is    *)
(* <<x>> wherever a column or a variable mixes None with a number or a     *)
(* table; a dict is the sequence of its [key, value] items in insertion    *)
(* order; a DataFrame is the sequence of its rows, each row a record.      *)
(***************************************************************************)
EXTENDS Integers, Sequences, FiniteSets, TLC

VARIABLES
    kind,                 \* the mapper class: FranchiseMapper or CorrectedFranchiseMapper
    lineages,             \* self.lineages: the lineage table, in dict order
    status,               \* "unbuilt", "built" (__init__ returned) or "failed" (__init__ raised)
    lahman_to_canonical,  \* self.lahman_to_canonical
    error,                \* the ValueError raised by __init__, NoError if none
    lookup,               \* the last get_canonical_franchise call and its result
    df,                   \* the caller's season table
    df_annotated,         \* what create_annotated_dataset returned last
    mapped_data,          \* what get_analysis_ready_data returned last
    calls,                \* how many annotator calls have returned
    df_columns,           \* df.columns, the column names of the caller's table
    current_year,         \* datetime.now().year
    results,              \* what the last validation call returned, None before it
    raised,               \* the exception the last validation call raised, None if none
    run                   \* one run of the enhanced pipeline's main

vars == <<kind, lineages, status, lahman_to_canonical, error, lookup, df,
          df_annotated, mapped_data, calls, df_columns, current_year, results,
          raised, run>>

\* what construction and the annotators neither read nor write
validationVars == <<df_columns, current_year, results, raised, run>>

\* what the validation checks neither read nor write
annotationVars == <<lookup, df_annotated, mapped_data, calls>>

\* the mapper, which nothing changes once it is built
mapperVars == <<kind, lineages, status, lahman_to_canonical, error>>

\* no table has been validated and no pipeline run started
NoValidation ==
    /\ df_columns = {"yearID", "franchID"}
    /\ current_year = 2026
    /\ results = <<>>
    /\ raised = <<>>
    /\ run = [pc |-> "idle"]

-----------------------------------------------------------------------------
(* Bounds of the model.                                                    *)

\* longest lineage table of SpecRegistry
MaxLineages == 2
\* longest lahman_ids list of a lineage of SpecRegistry
MaxIds == 2
\* longest season table of Spec
MaxRows == 2
\* most annotator calls in one run of Spec
MaxCalls == 2
\* most seasons of the Braves on one side of 1966 in SpecCompleteness
MaxSeasons == 12

-----------------------------------------------------------------------------
(* Python values.                                                          *)

None == <<>>

Some(x) == <<x>>

\* what Series.map leaves for a key the dict does not hold
NaN == "<NaN>"

\* what dict.get returns for a key the dict does not hold
NoValue == "<None>"

Range(s) == {s[i] : i \in 1..Len(s)}

DictHas(d, k) == \E i \in 1..Len(d) : d[i].key = k

DictGet(d, k) ==
    IF DictHas(d, k)
    THEN d[CHOOSE i \in 1..Len(d) : d[i].key = k].value
    ELSE NoValue

DictSet(d, k, v) ==
    IF DictHas(d, k)
    THEN [i \in 1..Len(d) |-> IF d[i].key = k THEN [key |-> k, value |-> v] ELSE d[i]]
    ELSE Append(d, [key |-> k, value |-> v])

-----------------------------------------------------------------------------
(* The lineage table.                                                      *)

Kinds == {"FranchiseMapper", "CorrectedFranchiseMapper"}

RelocationEvent(year) == [year |-> year]

FranchiseLineage(canonical_id, lahman_ids, relocations) ==
    [canonical_id |-> canonical_id, lahman_ids |-> lahman_ids,
     relocations |-> relocations]

\* the Braves' and the Athletics' moves listed latest first
SourceRelocationsLatestFirst(canonical_id) ==
    CASE canonical_id = "ATL" -> <<RelocationEvent(1966), RelocationEvent(1953)>>
      [] canonical_id = "LAD" -> <<RelocationEvent(1958)>>
      [] canonical_id = "SFG" -> <<RelocationEvent(1958)>>
      [] canonical_id = "OAK" -> <<RelocationEvent(1968), RelocationEvent(1955)>>
      [] canonical_id = "MIN" -> <<RelocationEvent(1961)>>
      [] canonical_id = "TEX" -> <<RelocationEvent(1972)>>
      [] canonical_id = "BAL" -> <<RelocationEvent(1954)>>
      [] canonical_id = "MIL" -> <<RelocationEvent(1970)>>
      [] canonical_id = "WSN" -> <<RelocationEvent(2005)>>
      [] canonical_id = "NYY" -> <<RelocationEvent(1903)>>
      [] OTHER -> <<>>

\* the relocation lists of the source's entries, the same in both mappers:
\* ten franchises have moved, every other entry has relocations=[]
SourceRelocations(canonical_id) ==
    CASE canonical_id = "ATL" -> <<RelocationEvent(1953), RelocationEvent(1966)>>
      [] canonical_id = "LAD" -> <<RelocationEvent(1958)>>
      [] canonical_id = "SFG" -> <<RelocationEvent(1958)>>
      [] canonical_id = "OAK" -> <<RelocationEvent(1955), RelocationEvent(1968)>>
      [] canonical_id = "MIN" -> <<RelocationEvent(1961)>>
      [] canonical_id = "TEX" -> <<RelocationEvent(1972)>>
      [] canonical_id = "BAL" -> <<RelocationEvent(1954)>>
      [] canonical_id = "MIL" -> <<RelocationEvent(1970)>>
      [] canonical_id = "WSN" -> <<RelocationEvent(2005)>>
      [] canonical_id = "NYY" -> <<RelocationEvent(1903)>>
      [] OTHER -> <<>>

CanonicalIds == {"ATL", "LAD", "HOU"}

RawIds == {"ATL", "BSN"}

\* an identifier no lineage of the model lists (a defunct franchise of the source)
DefunctId == "ATH"

IdLists == UNION {[1..n -> RawIds] : n \in 1..MaxIds}

\* Lineage tables handed to __init__ in SpecRegistry: every table of at most
\* MaxLineages lineages with distinct keys, each listing 1..MaxIds raw
\* identifiers, repeated or shared ones included.
LineageTables ==
    UNION {
        {t \in [1..n -> {FranchiseLineage(c, ids, SourceRelocations(c)) :
                            c \in CanonicalIds, ids \in IdLists}] :
            \A i, j \in 1..n : i # j => t[i].canonical_id # t[j].canonical_id}
        : n \in 1..MaxLineages}

-----------------------------------------------------------------------------
(* _build_lahman_mapping.                                                  *)

NoError == <<>>

\* the message with its interpolated field lost
DuplicateErrorAnonymous(lahman_id) ==
    <<"Duplicate Lahman ID ", "", " found in multiple lineages">>

\* f"Duplicate Lahman ID {lahman_id} found in multiple lineages": the literal
\* parts of the message and, between them, the one value it interpolates
DuplicateError(lahman_id) ==
    <<"Duplicate Lahman ID ", lahman_id, " found in multiple lineages">>

\* the guard left out: a later lineage silently takes the identifier over
NeverMapped(mapping, lahman_id) == FALSE

\* if lahman_id in mapping
AlreadyMapped(mapping, lahman_id) == DictHas(mapping, lahman_id)

RECURSIVE BuildFrom(_, _, _, _)
BuildFrom(lins, i, j, mapping) ==
    IF i > Len(lins)
    THEN [ok |-> TRUE, mapping |-> mapping, error |-> NoError]
    ELSE IF j > Len(lins[i].lahman_ids)
    THEN BuildFrom(lins, i + 1, 1, mapping)
    ELSE LET lahman_id == lins[i].lahman_ids[j]
         IN  IF AlreadyMapped(mapping, lahman_id)
             THEN [ok |-> FALSE, mapping |-> <<>>, error |-> DuplicateError(lahman_id)]
             ELSE BuildFrom(lins, i, j + 1,
                            DictSet(mapping, lahman_id, lins[i].canonical_id))

BuildLahmanMapping(lins) == BuildFrom(lins, 1, 1, <<>>)

-----------------------------------------------------------------------------
(* SpecRegistry: construction and lookup.                                  *)

\* __init__: self.lineages is set, then the identifier map is built; a
\* raise leaves no mapper object behind
Construct ==
    /\ status = "unbuilt"
    /\ LET r == BuildLahmanMapping(lineages)
       IN  /\ status' = IF r.ok THEN "built" ELSE "failed"
           /\ lahman_to_canonical' = r.mapping
           /\ error' = r.error
    /\ UNCHANGED <<kind, lineages, lookup, df, df_annotated, mapped_data, calls>>
    /\ UNCHANGED validationVars

\* .get(lahman_id, lahman_id): the key itself as the default
LookupResultOrKey(lahman_id) ==
    IF DictHas(lahman_to_canonical, lahman_id)
    THEN DictGet(lahman_to_canonical, lahman_id)
    ELSE lahman_id

\* self.lahman_to_canonical.get(lahman_id)
LookupResult(lahman_id) == DictGet(lahman_to_canonical, lahman_id)

GetCanonicalFranchise(lahman_id) ==
    /\ status = "built"
    /\ lookup' = Some([lahman_id |-> lahman_id, result |-> LookupResult(lahman_id)])
    /\ UNCHANGED <<kind, lineages, status, lahman_to_canonical, error, df,
                   df_annotated, mapped_data, calls>>
    /\ UNCHANGED validationVars

InitRegistry ==
    /\ kind \in Kinds
    /\ lineages \in LineageTables
    /\ status = "unbuilt"
    /\ lahman_to_canonical = <<>>
    /\ error = NoError
    /\ lookup = None
    /\ df = <<>>
    /\ df_annotated = None
    /\ mapped_data = None
    /\ calls = 0
    /\ NoValidation

NextRegistry ==
    \/ Construct
    \/ \E lahman_id \in RawIds \cup {DefunctId} : GetCanonicalFranchise(lahman_id)

SpecRegistry == InitRegistry /\ [][NextRegistry]_vars

-----------------------------------------------------------------------------
(* Claims about construction and lookup (SpecRegistry).                    *)

\* the lineages of the table that list identifier x
Claimants(x) == {i \in 1..Len(lineages) : x \in Range(lineages[i].lahman_ids)}

\* some raw identifier is listed by two different lineages
CrossCollision == \E x \in RawIds : Cardinality(Claimants(x)) >= 2

\* C1: a lineage table in which some raw identifier is listed by two
\* different lineages makes construction raise and leaves no registry;
\* whenever construction succeeds, the identifier lists of any two distinct
\* canonical franchises are disjoint.
C1_UniqueIdentifiers ==
    /\ (status # "unbuilt" /\ CrossCollision) =>
           (status = "failed" /\ error # NoError /\ lahman_to_canonical = <<>>)
    /\ status = "built" =>
           \A i, j \in 1..Len(lineages) :
               i # j => Range(lineages[i].lahman_ids) \cap Range(lineages[j].lahman_ids) = {}

C1_Witness ==
    /\ status = "failed"
    /\ CrossCollision
    /\ Len(lineages) = 2

\* no lineage lists an identifier twice, so that a failed construction is a
\* collision between two lineages
NoRepeatWithinLineage ==
    \A i \in 1..Len(lineages) :
        \A a, b \in 1..Len(lineages[i].lahman_ids) :
            a # b => lineages[i].lahman_ids[a] # lineages[i].lahman_ids[b]

\* C2 as stated: when construction fails on an identifier that two lineages
\* list, the error names that identifier and both lineages.
C2_ErrorNamesIdAndLineages ==
    (status = "failed" /\ NoRepeatWithinLineage) =>
        \E x \in RawIds :
            /\ Cardinality(Claimants(x)) >= 2
            /\ x \in Range(error)
            /\ \A i \in Claimants(x) : lineages[i].canonical_id \in Range(error)

\* the identifier x is listed at two places of the table
ListedTwice(x) ==
    \E i, j \in 1..Len(lineages) :
        \E a \in 1..Len(lineages[i].lahman_ids), b \in 1..Len(lineages[j].lahman_ids) :
            /\ <<i, a>> # <<j, b>>
            /\ lineages[i].lahman_ids[a] = x
            /\ lineages[j].lahman_ids[b] = x

\* C2, amended: the error of a failed construction names the colliding raw
\* identifier, and that identifier is all that it names: the message is
\* "Duplicate Lahman ID <id> found in multiple lineages" for an identifier
\* listed twice in the table.
C2_ErrorNamesId ==
    status = "failed" =>
        \E x \in RawIds :
            /\ ListedTwice(x)
            /\ error = <<"Duplicate Lahman ID ", x, " found in multiple lineages">>

C2_Witness ==
    /\ status = "failed"
    /\ \E x \in RawIds :
           /\ Cardinality(Claimants(x)) >= 2
           /\ error[2] = x
           /\ \E i \in Claimants(x) : lineages[i].canonical_id \notin Range(error)

\* C3: on a built registry get_canonical_franchise(id) returns the
\* canonical id of the lineage that lists id, and None for an id that no
\* lineage lists.
C3_ResolutionTotal ==
    (status = "built" /\ lookup # None) =>
        LET q == lookup[1]
        IN  /\ \A i \in 1..Len(lineages) :
                   q.lahman_id \in Range(lineages[i].lahman_ids) =>
                       q.result = lineages[i].canonical_id
            /\ Claimants(q.lahman_id) = {} => q.result = NoValue

C3_Witness ==
    /\ status = "built"
    /\ Len(lineages) = 2
    /\ lookup # None
    /\ lookup[1].result = lineages[2].canonical_id
    /\ lookup[1].lahman_id # lineages[2].canonical_id

-----------------------------------------------------------------------------
(* Season tables and the registries of Spec.                               *)

\* the raw franchise identifiers of the rows: ATL and BSN (the Braves' ids),
\* HOU (never relocated) and ATH (in no lineage)
FranchIds == {"ATL", "BSN", "HOU", DefunctId}

Years == {1955, 1960, 1965, 1966, 1970}

SeasonRows == [yearID : Years, franchID : FranchIds]

SeasonTables == UNION {[1..n -> SeasonRows] : n \in 0..MaxRows}

\* Relocation lists of the registries of Spec, each in increasing year order
\* as every list of the source is: the source's two-move and one-move lists,
\* no move, and two moves four years apart, whose +-3 windows overlap.
RelocationLists ==
    { <<RelocationEvent(1953), RelocationEvent(1966)>>,
      <<RelocationEvent(1958)>>,
      <<>>,
      <<RelocationEvent(1953), RelocationEvent(1957)>> }

\* lahman_ids of the ATL entry: franchise_mapping.py lists the per-era ids,
\* corrected_franchise_mapping.py the one id of the whole lineage
AtlantaIds(k) ==
    IF k = "FranchiseMapper" THEN <<"BSN", "ML1", "ATL">> ELSE <<"ATL">>

\* _build_franchise_lineages, cut to the ATL and HOU entries, the ATL
\* relocation list ranging over RelocationLists
Registries(k) ==
    { << FranchiseLineage("ATL", AtlantaIds(k), r),
         FranchiseLineage("HOU", <<"HOU">>, <<>>) >> : r \in RelocationLists }

-----------------------------------------------------------------------------
(* The annotators.                                                         *)

\* df[column] = value on every row, or on the rows it is given for: the new
\* columns are added and a column of the same name is overwritten
AssignColumns(row, columns) == columns @@ row

\* df['franchID'].map(lahman_to_canonical)
MapCanonical(franchID) ==
    IF DictHas(lahman_to_canonical, franchID)
    THEN DictGet(lahman_to_canonical, franchID)
    ELSE NaN

\* the slip of taking the list's first event for its latest
FirstRelocation(relocations) == relocations[1]

\* max(lineage.relocations, key=lambda x: x.year): the first event of the
\* list among those of the largest year
LatestRelocation(relocations) ==
    relocations[CHOOSE i \in 1..Len(relocations) :
                    /\ \A k \in 1..Len(relocations) :
                           relocations[k].year <= relocations[i].year
                    /\ \A k \in 1..(i - 1) :
                           relocations[k].year < relocations[i].year]

\* the mask left out: every row is taken for the lineage's
FranchiseMaskAll(row, canonical_id) == TRUE

\* df['canonical_franchise'] == canonical_id
FranchiseMask(row, canonical_id) == row.canonical_franchise = canonical_id

PreMask(row, canonical_id, latest_relocation) ==
    FranchiseMask(row, canonical_id) /\ row.yearID < latest_relocation.year

\* the slip of > for >=: the relocation season itself is left out
PostMaskStrict(row, canonical_id, latest_relocation) ==
    FranchiseMask(row, canonical_id) /\ row.yearID > latest_relocation.year

PostMask(row, canonical_id, latest_relocation) ==
    FranchiseMask(row, canonical_id) /\ row.yearID >= latest_relocation.year

\* the operands of the subtraction swapped
PostYearsSwapped(row, latest_relocation) == latest_relocation.year - row.yearID

\* df.loc[post_mask, 'yearID'] - latest_relocation.year
PostYears(row, latest_relocation) == row.yearID - latest_relocation.year

\* One pass of the loop over the lineages, for a lineage that has
\* relocations, as it changes one row.
MarkRelocation(row, lineage) ==
    LET canonical_id == lineage.canonical_id
        latest_relocation == LatestRelocation(lineage.relocations)
        pre_mask == PreMask(row, canonical_id, latest_relocation)
        post_mask == PostMask(row, canonical_id, latest_relocation)
        r1 == IF FranchiseMask(row, canonical_id)
              THEN [row EXCEPT !.is_relocated_franchise = TRUE,
                               !.relocation_year = Some(latest_relocation.year)]
              ELSE row
        r2 == IF pre_mask THEN [r1 EXCEPT !.pre_relocation = TRUE] ELSE r1
        r3 == IF post_mask THEN [r2 EXCEPT !.post_relocation = TRUE] ELSE r2
    IN  IF post_mask
        THEN [r3 EXCEPT !.years_since_relocation = Some(PostYears(row, latest_relocation))]
        ELSE r3

\* --- create_annotated_dataset (franchise_mapping.py) ---

AnnotatedDefaults(row) ==
    AssignColumns(
        AssignColumns(row, [canonical_franchise |-> MapCanonical(row.franchID)]),
        [is_relocated_franchise |-> FALSE, relocation_year |-> None,
         pre_relocation |-> FALSE, post_relocation |-> FALSE,
         years_since_relocation |-> None])

RECURSIVE AnnotatedLoop(_, _, _)
AnnotatedLoop(rows, lins, i) ==
    IF i > Len(lins)
    THEN rows
    ELSE IF lins[i].relocations = <<>>
    THEN AnnotatedLoop(rows, lins, i + 1)
    ELSE AnnotatedLoop([k \in 1..Len(rows) |-> MarkRelocation(rows[k], lins[i])],
                       lins, i + 1)

create_annotated_dataset(table) ==
    AnnotatedLoop([k \in 1..Len(table) |-> AnnotatedDefaults(table[k])], lineages, 1)

\* --- get_analysis_ready_data (corrected_franchise_mapping.py) ---

EraWindow == 3

\* f'around_{relocation.year}'
EraLabel(relocation) == "around_" \o ToString(relocation.year)

EraMask(row, canonical_id, relocation) ==
    /\ FranchiseMask(row, canonical_id)
    /\ row.yearID >= relocation.year - EraWindow
    /\ row.yearID <= relocation.year + EraWindow

\* the label written only where none was written before: the first window wins
AssignEraIfUnset(row, canonical_id, relocation) ==
    IF EraMask(row, canonical_id, relocation) /\ row.relocation_era = "none"
    THEN [row EXCEPT !.relocation_era = EraLabel(relocation)]
    ELSE row

\* mapped_data.loc[era_mask, 'relocation_era'] = f'around_{relocation.year}'
AssignEra(row, canonical_id, relocation) ==
    IF EraMask(row, canonical_id, relocation)
    THEN [row EXCEPT !.relocation_era = EraLabel(relocation)]
    ELSE row

\* for relocation in lineage.relocations, in list order
RECURSIVE EraLoop(_, _, _, _)
EraLoop(row, canonical_id, relocations, j) ==
    IF j > Len(relocations)
    THEN row
    ELSE EraLoop(AssignEra(row, canonical_id, relocations[j]),
                 canonical_id, relocations, j + 1)

\* the rows of the previous call's result kept and the new ones added to them
MappedRowsAccumulated(table) ==
    (IF mapped_data = None THEN <<>> ELSE mapped_data[1])
        \o SelectSeq(table, LAMBDA row : DictHas(lahman_to_canonical, row.franchID))

\* the filter left out: every row of the table is kept
MappedRowsUnfiltered(table) == table

\* df[df['franchID'].isin(self.lahman_to_canonical.keys())].copy()
MappedRows(table) ==
    SelectSeq(table, LAMBDA row : DictHas(lahman_to_canonical, row.franchID))

\* years_since_relocation starting at 0 in place of None
AnalysisDefaultsZero(row) ==
    AssignColumns(
        AssignColumns(row, [canonical_franchise |-> MapCanonical(row.franchID)]),
        [is_relocated_franchise |-> FALSE, relocation_year |-> None,
         pre_relocation |-> FALSE, post_relocation |-> FALSE,
         years_since_relocation |-> Some(0), relocation_era |-> "none"])

AnalysisDefaults(row) ==
    AssignColumns(
        AssignColumns(row, [canonical_franchise |-> MapCanonical(row.franchID)]),
        [is_relocated_franchise |-> FALSE, relocation_year |-> None,
         pre_relocation |-> FALSE, post_relocation |-> FALSE,
         years_since_relocation |-> None, relocation_era |-> "none"])

RECURSIVE AnalysisLoop(_, _, _)
AnalysisLoop(rows, lins, i) ==
    IF i > Len(lins)
    THEN rows
    ELSE IF lins[i].relocations = <<>>
    THEN AnalysisLoop(rows, lins, i + 1)
    ELSE AnalysisLoop(
             [k \in 1..Len(rows) |->
                 EraLoop(MarkRelocation(rows[k], lins[i]),
                         lins[i].canonical_id, lins[i].relocations, 1)],
             lins, i + 1)

get_analysis_ready_data(table) ==
    LET mapped == MappedRows(table)
    IN  AnalysisLoop([k \in 1..Len(mapped) |-> AnalysisDefaults(mapped[k])], lineages, 1)

-----------------------------------------------------------------------------
(* Spec: a constructed mapper annotates the caller's table.                *)

\* the caller's frame under a second name, in place of a copy of it
df_alias(table) == [own |-> FALSE, rows |-> table]

\* df.copy(): a frame of the function's own that holds the caller's rows
df_copy(table) == [own |-> TRUE, rows |-> table]

\* the caller's table once the function has assigned columns to its working
\* frame: assignments to a frame of the function's own do not reach it
caller_table(table, frame, assigned) == IF frame.own THEN table ELSE assigned

\* create_annotated_dataset(df, mapper), mapper a FranchiseMapper
CreateAnnotatedDataset ==
    /\ status = "built"
    /\ kind = "FranchiseMapper"
    /\ calls < MaxCalls
    /\ df_annotated' = Some(create_annotated_dataset(df))
    /\ df' = caller_table(df, df_copy(df), create_annotated_dataset(df))
    /\ calls' = calls + 1
    /\ UNCHANGED <<kind, lineages, status, lahman_to_canonical, error, lookup,
                   mapped_data>>
    /\ UNCHANGED validationVars

\* mapper.get_analysis_ready_data(df), mapper a CorrectedFranchiseMapper
GetAnalysisReadyData ==
    /\ status = "built"
    /\ kind = "CorrectedFranchiseMapper"
    /\ calls < MaxCalls
    /\ mapped_data' = Some(get_analysis_ready_data(df))
    /\ calls' = calls + 1
    /\ UNCHANGED <<kind, lineages, status, lahman_to_canonical, error, lookup, df,
                   df_annotated>>
    /\ UNCHANGED validationVars

\* the mapper of either class constructed from its lineage table, and the
\* season table the caller loaded
Init ==
    /\ kind \in Kinds
    /\ lineages \in Registries(kind)
    /\ status = "built"
    /\ lahman_to_canonical = BuildLahmanMapping(lineages).mapping
    /\ error = NoError
    /\ lookup = None
    /\ df \in SeasonTables
    /\ df_annotated = None
    /\ mapped_data = None
    /\ calls = 0
    /\ NoValidation

Next ==
    \/ CreateAnnotatedDataset
    \/ GetAnalysisReadyData

Spec == Init /\ [][Next]_vars

-----------------------------------------------------------------------------
(* Claims about the annotators (Spec).  The lineage of a row, its          *)
(* relocation years and its primary year are read here from the lineage    *)
(* table itself, not from the columns the annotators write.                *)

LineagesOf(franchID) ==
    {i \in 1..Len(lineages) : franchID \in Range(lineages[i].lahman_ids)}

Resolves(franchID) == LineagesOf(franchID) # {}

LineageOf(franchID) == lineages[CHOOSE i \in LineagesOf(franchID) : TRUE]

RelocationYears(franchID) ==
    IF Resolves(franchID)
    THEN {LineageOf(franchID).relocations[k].year :
              k \in 1..Len(LineageOf(franchID).relocations)}
    ELSE {}

HasRelocated(franchID) == RelocationYears(franchID) # {}

MaxOf(S) == CHOOSE m \in S : \A y \in S : y <= m

PrimaryYear(franchID) == MaxOf(RelocationYears(franchID))

AnnotatedRows == IF df_annotated = None THEN <<>> ELSE df_annotated[1]

AnalysisRows == IF mapped_data = None THEN <<>> ELSE mapped_data[1]

\* the rows of whatever the annotators have returned
OutputRows == AnnotatedRows \o AnalysisRows

\* C4: every output row whose canonical franchise has at least one
\* relocation has exactly one of pre_relocation and post_relocation true.
C4_PartitionComplete ==
    \A i \in 1..Len(OutputRows) :
        LET row == OutputRows[i]
        IN  HasRelocated(row.franchID) =>
                /\ row.pre_relocation \/ row.post_relocation
                /\ ~(row.pre_relocation /\ row.post_relocation)

C4_Witness ==
    \E i, j \in 1..Len(OutputRows) :
        /\ HasRelocated(OutputRows[i].franchID)
        /\ OutputRows[i].pre_relocation /\ ~OutputRows[i].post_relocation
        /\ HasRelocated(OutputRows[j].franchID)
        /\ OutputRows[j].yearID = PrimaryYear(OutputRows[j].franchID)
        /\ OutputRows[j].post_relocation /\ ~OutputRows[j].pre_relocation

\* C5: years_since_relocation is defined for a row exactly when
\* post_relocation is true for it, and then it is the row's year minus the
\* franchise's primary relocation year, which is not negative.
C5_YearsSinceIffPost ==
    \A i \in 1..Len(OutputRows) :
        LET row == OutputRows[i]
        IN  /\ (row.years_since_relocation # None) <=> row.post_relocation
            /\ row.post_relocation =>
                   /\ HasRelocated(row.franchID)
                   /\ row.years_since_relocation =
                          Some(row.yearID - PrimaryYear(row.franchID))
                   /\ row.years_since_relocation[1] >= 0

C5_Witness ==
    \E i, j \in 1..Len(OutputRows) :
        /\ OutputRows[i].post_relocation
        /\ OutputRows[i].years_since_relocation # None
        /\ OutputRows[i].years_since_relocation[1] > 0
        /\ OutputRows[j].pre_relocation
        /\ OutputRows[j].years_since_relocation = None

\* C6: for a lineage with relocations the split point written on each of
\* its rows is the largest relocation year of the lineage; a row is
\* pre_relocation iff its year is below it and post_relocation iff not.
\* For relocations 1953 and 1966 a 1960 row is pre and a 1970 row is post
\* with years_since_relocation 4.
C6_PrimaryIsLatest ==
    \A i \in 1..Len(OutputRows) :
        LET row == OutputRows[i]
        IN  HasRelocated(row.franchID) =>
                /\ row.relocation_year = Some(PrimaryYear(row.franchID))
                /\ row.pre_relocation <=> (row.yearID < PrimaryYear(row.franchID))
                /\ row.post_relocation <=> (row.yearID >= PrimaryYear(row.franchID))
                /\ (RelocationYears(row.franchID) = {1953, 1966} /\ row.yearID = 1960) =>
                       (row.pre_relocation /\ ~row.post_relocation)
                /\ (RelocationYears(row.franchID) = {1953, 1966} /\ row.yearID = 1970) =>
                       /\ row.post_relocation /\ ~row.pre_relocation
                       /\ row.years_since_relocation = Some(4)

C6_Witness ==
    \E i, j \in 1..Len(OutputRows) :
        /\ RelocationYears(OutputRows[i].franchID) = {1953, 1966}
        /\ OutputRows[i].yearID = 1960
        /\ OutputRows[i].pre_relocation
        /\ OutputRows[i].relocation_year = Some(1966)
        /\ RelocationYears(OutputRows[j].franchID) = {1953, 1966}
        /\ OutputRows[j].yearID = 1970
        /\ OutputRows[j].years_since_relocation = Some(4)

\* the relocation years of the row's lineage whose +-3 window holds the row
WindowsHolding(row) ==
    {y \in RelocationYears(row.franchID) : y - 3 <= row.yearID /\ row.yearID <= y + 3}

\* C7: for a row of a relocated franchise relocation_era is "around_<y>",
\* y the largest relocation year of the lineage whose window [y-3, y+3]
\* holds the row's year, and "none" if no window holds it.  For relocations
\* 1953 and 1966, 1955 gives around_1953 and 1965 gives around_1966.
C7_EraLatestWindow ==
    \A i \in 1..Len(AnalysisRows) :
        LET row == AnalysisRows[i]
        IN  HasRelocated(row.franchID) =>
                /\ row.relocation_era =
                       IF WindowsHolding(row) = {}
                       THEN "none"
                       ELSE "around_" \o ToString(MaxOf(WindowsHolding(row)))
                /\ (RelocationYears(row.franchID) = {1953, 1966} /\ row.yearID = 1955) =>
                       row.relocation_era = "around_1953"
                /\ (RelocationYears(row.franchID) = {1953, 1966} /\ row.yearID = 1965) =>
                       row.relocation_era = "around_1966"

C7_Witness ==
    \E i, j \in 1..Len(AnalysisRows) :
        /\ Cardinality(WindowsHolding(AnalysisRows[i])) = 2
        /\ AnalysisRows[i].relocation_era = "around_1957"
        /\ HasRelocated(AnalysisRows[j].franchID)
        /\ AnalysisRows[j].relocation_era = "none"

NotRelocatedDefaults(row) ==
    /\ row.is_relocated_franchise = FALSE
    /\ row.relocation_year = None
    /\ row.pre_relocation = FALSE
    /\ row.post_relocation = FALSE
    /\ row.years_since_relocation = None

InputColumns(row) == [yearID |-> row.yearID, franchID |-> row.franchID]

\* C9 as stated: neither annotator drops a row, and the rows whose raw
\* identifier does not resolve carry the not-relocated defaults.
C9_NoRowDropped ==
    /\ df_annotated # None =>
           /\ Len(AnnotatedRows) = Len(df)
           /\ \A i \in 1..Len(AnnotatedRows) :
                  ~Resolves(AnnotatedRows[i].franchID) =>
                      NotRelocatedDefaults(AnnotatedRows[i])
    /\ mapped_data # None =>
           /\ Len(AnalysisRows) = Len(df)
           /\ \A i \in 1..Len(AnalysisRows) :
                  ~Resolves(AnalysisRows[i].franchID) =>
                      NotRelocatedDefaults(AnalysisRows[i])

\* C9, amended: create_annotated_dataset drops no row (its output has the
\* input's rows in the input's order, the rows that do not resolve with no
\* canonical franchise and the not-relocated defaults);
\* get_analysis_ready_data returns the rows whose raw identifier resolves,
\* in the input's order, and drops every row whose identifier does not.
C9_RowsKeptOrFiltered ==
    /\ df_annotated # None =>
           /\ Len(AnnotatedRows) = Len(df)
           /\ \A i \in 1..Len(AnnotatedRows) :
                  /\ InputColumns(AnnotatedRows[i]) = df[i]
                  /\ ~Resolves(df[i].franchID) =>
                         /\ AnnotatedRows[i].canonical_franchise = NaN
                         /\ NotRelocatedDefaults(AnnotatedRows[i])
    /\ mapped_data # None =>
           [i \in 1..Len(AnalysisRows) |-> InputColumns(AnalysisRows[i])]
               = SelectSeq(df, LAMBDA row : Resolves(row.franchID))

C9_Witness ==
    /\ mapped_data # None
    /\ Len(df) = 2
    /\ Len(AnalysisRows) = 1
    /\ ~Resolves(df[1].franchID)
    /\ InputColumns(AnalysisRows[1]) = df[2]

-----------------------------------------------------------------------------
(* The validator's tables.  A row carries the nine columns of a loaded     *)
(* table; df_columns says which of them the table has, and reading a       *)
(* column it lacks raises KeyError.  W_pct is held in thousandths, the     *)
(* three decimals the loader rounds it to.  yearID, W, L and G are the     *)
(* loader's integers, which are never null; franchID is NaN where the      *)
(* file left it blank.                                                     *)

AllColumns == {"yearID", "teamID", "franchID", "lgID", "name", "W", "L", "G", "W_pct"}

SeasonRecord(yearID, teamID, franchID, lgID, W, L, G, W_pct) ==
    [yearID |-> yearID, teamID |-> teamID, franchID |-> franchID, lgID |-> lgID,
     name |-> teamID, W |-> W, L |-> L, G |-> G, W_pct |-> W_pct]

\* ValidationResult(check_name, status, message, details)
ValidationResult(check_name, severity, message, details) ==
    [check_name |-> check_name, status |-> severity, message |-> message,
     details |-> details]

Abs(x) == IF x < 0 THEN -x ELSE x

\* KeyError(column), raised by df[column] on a table without the column
KeyError(column) == <<"KeyError", column>>

-----------------------------------------------------------------------------
(* validate_basic_data_quality                                             *)

\* the slip of requiring only the loader's seven columns
required_cols_loader == <<"yearID", "teamID", "franchID", "lgID", "name", "W", "L">>

required_cols == <<"yearID", "teamID", "franchID", "lgID", "name", "W", "L", "G", "W_pct">>

critical_cols == <<"yearID", "franchID", "W", "L">>

\* [col for col in required_cols if col not in df.columns]
missing_cols(cols) == SelectSeq(required_cols, LAMBDA col : col \notin cols)

\* df[col].isnull().sum()
null_count(table, col) ==
    IF col = "franchID"
    THEN Len(SelectSeq(table, LAMBDA row : row.franchID = NaN))
    ELSE 0

\* null_counts, the critical columns the table has that hold a null
RECURSIVE null_counts_from(_, _, _, _)
null_counts_from(table, cols, i, counts) ==
    IF i > Len(critical_cols) THEN counts
    ELSE LET col == critical_cols[i]
         IN  null_counts_from(table, cols, i + 1,
                 IF col \in cols /\ null_count(table, col) > 0
                 THEN DictSet(counts, col, null_count(table, col))
                 ELSE counts)

null_counts(table, cols) == null_counts_from(table, cols, 1, <<>>)

\* the slip of flagging a game count that is off by one
g_mismatch_any(row) == Abs(row.G - (row.W + row.L)) >= 1

\* abs(G - (W + L)) > 1
g_mismatch(row) == Abs(row.G - (row.W + row.L)) > 1

\* abs(W_pct - W / (W + L)) > 0.01, in thousandths and cleared of the
\* division; 0 / 0 is NaN, which no comparison finds greater
pct_mismatch(row) ==
    LET calculated_G == row.W + row.L
    IN  /\ calculated_G # 0
        /\ Abs(row.W_pct * calculated_G - 1000 * row.W) > 10 * calculated_G

validate_basic_data_quality(table, cols) ==
    LET required ==
            IF missing_cols(cols) # <<>>
            THEN ValidationResult("required_columns", "fail",
                     <<"Missing required columns: ", missing_cols(cols)>>, None)
            ELSE ValidationResult("required_columns", "pass",
                     <<"All required columns present">>, None)
        nulls ==
            IF null_counts(table, cols) # <<>>
            THEN ValidationResult("null_values", "fail",
                     <<"Null values found in critical columns">>,
                     Some(null_counts(table, cols)))
            ELSE ValidationResult("null_values", "pass",
                     <<"No null values in critical columns">>, None)
        g_errors   == Len(SelectSeq(table, g_mismatch))
        pct_errors == Len(SelectSeq(table, pct_mismatch))
        accuracy ==
            IF {"W", "L", "G", "W_pct"} \subseteq cols
            THEN IF g_errors > 0 \/ pct_errors > 0
                 THEN << ValidationResult("calculation_accuracy", "warning",
                             <<"Calculation mismatches: ", g_errors, " games, ",
                               pct_errors, " win percentages">>, None) >>
                 ELSE << ValidationResult("calculation_accuracy", "pass",
                             <<"Win percentage calculations are accurate">>, None) >>
            ELSE <<>>
    IN  <<required, nulls>> \o accuracy

-----------------------------------------------------------------------------
(* SpecQuality: validate_basic_data_quality on bounded tables.             *)

\* the mapper is built and no annotator has run
MapperReady(k, lins) ==
    /\ kind = k
    /\ lineages = lins
    /\ status = "built"
    /\ lahman_to_canonical = BuildLahmanMapping(lins).mapping
    /\ error = NoError
    /\ lookup = None
    /\ df_annotated = None
    /\ mapped_data = None
    /\ calls = 0

\* FranchiseMapper's own ATL and HOU entries
SourceRegistry ==
    << FranchiseLineage("ATL", AtlantaIds("FranchiseMapper"), SourceRelocations("ATL")),
       FranchiseLineage("HOU", <<"HOU">>, SourceRelocations("HOU")) >>

\* the tables of up to MaxRows rows drawn from a set of rows
TablesOf(rows) == UNION { [1..n -> rows] : n \in 0..MaxRows }

\* the column sets a table can arrive with: all nine, or lacking some of these
ColumnSets == { AllColumns \ absent : absent \in SUBSET {"yearID", "name", "G", "W_pct"} }

\* seasons whose stored G and W_pct agree or disagree with W and L: 120-50 is
\* 0.7059, so 0.715 is within the tolerance and 0.716 beyond it
QualityRows ==
    { SeasonRecord(1962, "HOU", "HOU", "NL", wl[1], wl[2], wl[1] + wl[2] + extra, pct) :
        wl \in {<<120, 50>>, <<0, 0>>}, extra \in {0, 1, 2},
        pct \in {706, 715, 716, 950} }
    \cup { SeasonRecord(1962, "HOU", NaN, "NL", 120, 50, 170, 706) }

ValidateBasicDataQuality ==
    /\ results = None
    /\ results' = Some(validate_basic_data_quality(df, df_columns))
    /\ raised' = None
    /\ UNCHANGED <<df, df_columns, current_year, run>>
    /\ UNCHANGED mapperVars
    /\ UNCHANGED annotationVars

InitQuality ==
    /\ MapperReady("FranchiseMapper", SourceRegistry)
    /\ df \in TablesOf(QualityRows)
    /\ df_columns \in ColumnSets
    /\ current_year = 2026
    /\ results = None
    /\ raised = None
    /\ run = [pc |-> "idle"]

NextQuality == ValidateBasicDataQuality

SpecQuality == InitQuality /\ [][NextQuality]_vars

\* the findings of a returned list that carry a check name
FindingsNamed(findings, check_name) ==
    SelectSeq(findings, LAMBDA f : f.check_name = check_name)

\* the call has returned a list of findings
Returned == results # None /\ raised = None

\* the loader's seven input columns
LoaderColumns == {"yearID", "teamID", "franchID", "lgID", "name", "W", "L"}

\* the required_columns finding is fail exactly when one of the given
\* columns is absent, and then names exactly the absent ones
RequiredColumnsVerdict(required) ==
    LET found  == FindingsNamed(results[1], "required_columns")
        absent == required \ df_columns
    IN  /\ Len(found) = 1
        /\ found[1].status = (IF absent # {} THEN "fail" ELSE "pass")
        /\ absent # {} => Range(found[1].message[2]) = absent

\* C16 as stated: the required_columns finding is fail iff one of the seven
\* input columns (yearID, teamID, franchID, lgID, name, W, L) is absent, so
\* that a table with those seven but without G and W_pct passes
C16_SevenColumnsRequired ==
    Returned => RequiredColumnsVerdict(LoaderColumns)

\* C16 amended: the required_columns finding is fail iff one of the nine
\* columns (the seven and G and W_pct) is absent, its message names exactly
\* the absent ones, and it is pass otherwise
C16_NineColumnsRequired ==
    Returned => RequiredColumnsVerdict(AllColumns)

\* a table with the seven input columns and without G and W_pct was rejected
C16_Witness ==
    /\ Returned
    /\ df_columns = LoaderColumns
    /\ FindingsNamed(results[1], "required_columns")[1].status = "fail"
    /\ FindingsNamed(results[1], "required_columns")[1].message[2] = <<"G", "W_pct">>

\* a row whose stored games or stored share is off: |G - (W+L)| > 1, or
\* |W_pct - W/(W+L)| > 0.01 where W+L is not zero
Miscalculated(row) ==
    \/ row.G - (row.W + row.L) > 1
    \/ (row.W + row.L) - row.G > 1
    \/ /\ row.W + row.L > 0
       /\ \/ row.W_pct * (row.W + row.L) > 1000 * row.W + 10 * (row.W + row.L)
          \/ row.W_pct * (row.W + row.L) < 1000 * row.W - 10 * (row.W + row.L)

\* C17: the calculation_accuracy finding is never fail; on a table that has
\* W, L, G and W_pct it is warning iff some row has |G - (W+L)| > 1 or
\* |W_pct - W/(W+L)| > 0.01 and pass iff no row does; 120-50 stored as 0.95
\* gives warning
C17_CalculationAccuracy ==
    Returned =>
        LET found == FindingsNamed(results[1], "calculation_accuracy")
        IN  /\ \A i \in 1..Len(found) : found[i].status # "fail"
            /\ {"W", "L", "G", "W_pct"} \subseteq df_columns =>
                   /\ Len(found) = 1
                   /\ found[1].status = "warning" <=>
                          \E i \in 1..Len(df) : Miscalculated(df[i])
                   /\ found[1].status = "pass" <=>
                          \A i \in 1..Len(df) : ~Miscalculated(df[i])
                   /\ (\E i \in 1..Len(df) :
                          df[i].W = 120 /\ df[i].L = 50 /\ df[i].W_pct = 950)
                      => found[1].status = "warning"

\* a 120-50 season stored as 0.95 with the right game count drew the warning
C17_Witness ==
    /\ Returned
    /\ {"W", "L", "G", "W_pct"} \subseteq df_columns
    /\ \E i \in 1..Len(df) :
           df[i].W = 120 /\ df[i].L = 50 /\ df[i].G = 170 /\ df[i].W_pct = 950
    /\ \A i \in 1..Len(df) : df[i].G = df[i].W + df[i].L
    /\ FindingsNamed(results[1], "calculation_accuracy")[1].status = "warning"

-----------------------------------------------------------------------------
(* validate_historical_accuracy                                            *)

\* the slip of reading the first row's year for the earliest
first_year(table) ==
    IF table = <<>> THEN None ELSE Some(table[1].yearID)

\* df['yearID'].min(), NaN (None here) on a table without rows
min_year(table) ==
    IF table = <<>> THEN None
    ELSE Some(CHOOSE y \in {table[i].yearID : i \in 1..Len(table)} :
                  \A i \in 1..Len(table) : y <= table[i].yearID)

\* df['yearID'].max()
max_year(table) ==
    IF table = <<>> THEN None
    ELSE Some(CHOOSE y \in {table[i].yearID : i \in 1..Len(table)} :
                  \A i \in 1..Len(table) : y >= table[i].yearID)

strike_years == {1981, 1994, 2020}

\* modern_era[~modern_era['yearID'].isin(strike_years)]
normal_modern(table) ==
    SelectSeq(table, LAMBDA row : row.yearID >= 1961 /\ row.yearID \notin strike_years)

low_games(table) == SelectSeq(normal_modern(table), LAMBDA row : row.G < 160)

high_games(table) == SelectSeq(normal_modern(table), LAMBDA row : row.G > 164)

\* the slip of counting a share of exactly 0 or 1 as impossible
impossible_inclusive(row) == row.W_pct <= 0 \/ row.W_pct >= 1000

\* (W_pct < 0) | (W_pct > 1)
impossible(row) == row.W_pct < 0 \/ row.W_pct > 1000

\* (W_pct < 0.2) | (W_pct > 0.8)
extreme(row) == row.W_pct < 200 \/ row.W_pct > 800

impossible_pct(table) == SelectSeq(table, impossible)

extreme_records(table) == SelectSeq(table, extreme)

\* frame[[...]].to_dict('records') for the column lists the details use
GameRecords(table) ==
    [i \in 1..Len(table) |->
        [yearID |-> table[i].yearID, teamID |-> table[i].teamID, G |-> table[i].G]]

PctRecords(table) ==
    [i \in 1..Len(table) |->
        [yearID |-> table[i].yearID, teamID |-> table[i].teamID,
         W_pct |-> table[i].W_pct]]

ExtremeRecords(table) ==
    [i \in 1..Len(table) |->
        [yearID |-> table[i].yearID, teamID |-> table[i].teamID,
         name |-> table[i].name, W_pct |-> table[i].W_pct]]

\* the first column the function reads that the table lacks, None if it
\* reads none such: KeyError is raised there
historical_missing(table, cols) ==
    IF "yearID" \notin cols THEN Some("yearID")
    ELSE IF normal_modern(table) # <<>> /\ "G" \notin cols THEN Some("G")
    ELSE IF low_games(table) \o high_games(table) # <<>> /\ "teamID" \notin cols
         THEN Some("teamID")
    ELSE IF "W_pct" \notin cols THEN Some("W_pct")
    ELSE IF impossible_pct(table) \o extreme_records(table) # <<>>
            /\ "teamID" \notin cols
         THEN Some("teamID")
    ELSE IF extreme_records(table) # <<>> /\ "name" \notin cols THEN Some("name")
    ELSE None

\* the findings of a table that has every column the function reads
validate_historical_accuracy(table, now) ==
    LET early ==
            IF min_year(table) # None /\ min_year(table)[1] < 1871
            THEN << ValidationResult("year_range", "warning",
                        <<"Data includes years before 1871 (first professional season): ",
                          min_year(table)[1]>>, None) >>
            ELSE <<>>
        future ==
            IF max_year(table) # None /\ max_year(table)[1] > now
            THEN << ValidationResult("year_range", "fail",
                        <<"Data includes future years: ", max_year(table)[1]>>, None) >>
            ELSE <<>>
        low ==
            IF Len(low_games(table)) > 0
            THEN << ValidationResult("game_counts", "warning",
                        <<Len(low_games(table)),
                          " modern seasons with unusually low game counts">>,
                        Some([low_game_seasons |-> GameRecords(low_games(table))])) >>
            ELSE <<>>
        high ==
            IF Len(high_games(table)) > 0
            THEN << ValidationResult("game_counts", "warning",
                        <<Len(high_games(table)),
                          " modern seasons with unusually high game counts">>,
                        Some([high_game_seasons |-> GameRecords(high_games(table))])) >>
            ELSE <<>>
        percentages ==
            IF impossible_pct(table) # <<>>
            THEN << ValidationResult("win_percentages", "fail",
                        <<Len(impossible_pct(table)),
                          " seasons with impossible win percentages">>,
                        Some([impossible_records |-> PctRecords(impossible_pct(table))])) >>
            ELSE <<>>
        extremes ==
            IF extreme_records(table) # <<>>
            THEN << ValidationResult("extreme_records", "warning",
                        <<Len(extreme_records(table)),
                          " seasons with extreme win percentages (< 20% or > 80%)">>,
                        Some([extreme_seasons |-> ExtremeRecords(extreme_records(table))])) >>
            ELSE <<>>
    IN  early \o future \o low \o high \o percentages \o extremes

-----------------------------------------------------------------------------
(* SpecHistory: validate_historical_accuracy on bounded tables.            *)

\* seasons at the edges of the year range, of the modern game counts and of
\* the win shares
HistoryRows ==
    { SeasonRecord(y, "NYN", "NYM", "NL", 81, 81, 162, 500) : y \in {1870, 1871, 2026} }
    \cup { SeasonRecord(y, "NYN", "NYM", "NL", 81, 81, g, 500) :
               y \in {1960, 1962, 1981}, g \in {159, 165} }
    \cup { SeasonRecord(1962, "NYN", "NYM", "NL", 81, 81, g, 500) : g \in {160, 164} }
    \cup { SeasonRecord(1962, "NYN", "NYM", "NL", 81, 81, 162, pct) :
               pct \in {-1, 0, 199, 200, 800, 801, 1000, 1001} }

\* the years datetime.now().year takes in the model
ClockYears == {2025, 2026}

ValidateHistoricalAccuracy ==
    /\ results = None
    /\ raised = None
    /\ IF historical_missing(df, df_columns) # None
       THEN /\ raised' = Some(KeyError(historical_missing(df, df_columns)[1]))
            /\ results' = None
       ELSE /\ raised' = None
            /\ results' = Some(validate_historical_accuracy(df, current_year))
    /\ UNCHANGED <<df, df_columns, current_year, run>>
    /\ UNCHANGED mapperVars
    /\ UNCHANGED annotationVars

InitHistory ==
    /\ MapperReady("FranchiseMapper", SourceRegistry)
    /\ df \in TablesOf(HistoryRows)
    /\ df_columns \in ColumnSets
    /\ current_year \in ClockYears
    /\ results = None
    /\ raised = None
    /\ run = [pc |-> "idle"]

NextHistory == ValidateHistoricalAccuracy

SpecHistory == InitHistory /\ [][NextHistory]_vars

\* the returned list holds a finding of this name and severity
Emitted(check_name, severity) ==
    \E i \in 1..Len(results[1]) :
        /\ results[1][i].check_name = check_name
        /\ results[1][i].status = severity

\* C18: a fail win_percentages finding is emitted iff some row has W_pct < 0
\* or W_pct > 1, and a warning extreme_records finding iff some row has
\* W_pct < 0.2 or W_pct > 0.8; shares of exactly 0, 0.2, 0.8 and 1 trigger
\* neither the fail nor (0.2 and 0.8) the warning
C18_WinPercentageBands ==
    Returned =>
        /\ Emitted("win_percentages", "fail") <=>
               \E i \in 1..Len(df) : df[i].W_pct < 0 \/ df[i].W_pct > 1000
        /\ Emitted("extreme_records", "warning") <=>
               \E i \in 1..Len(df) : df[i].W_pct < 200 \/ df[i].W_pct > 800
        /\ (\A i \in 1..Len(df) : df[i].W_pct \in {0, 200, 800, 1000})
               => ~Emitted("win_percentages", "fail")
        /\ (\A i \in 1..Len(df) : df[i].W_pct \in {200, 800})
               => ~Emitted("extreme_records", "warning")
        /\ \A i \in 1..Len(results[1]) :
               /\ results[1][i].check_name = "win_percentages"
                      => results[1][i].status = "fail"
               /\ results[1][i].check_name = "extreme_records"
                      => results[1][i].status = "warning"

\* a share of exactly 1 beside one of exactly 0.8 drew the extreme warning
\* for the first and no impossible-share fail
C18_Witness ==
    /\ Returned
    /\ Len(df) = 2
    /\ df[1].W_pct = 1000
    /\ df[2].W_pct = 800
    /\ Emitted("extreme_records", "warning")
    /\ ~Emitted("win_percentages", "fail")

\* C19: a warning year_range finding is emitted iff the earliest year is
\* before 1871, a fail year_range finding iff the latest year is after the
\* current calendar year; years all within [1871, current year] give no
\* year_range finding of either severity
C19_YearRange ==
    Returned =>
        /\ Emitted("year_range", "warning") <=>
               \E i \in 1..Len(df) : df[i].yearID < 1871
        /\ Emitted("year_range", "fail") <=>
               \E i \in 1..Len(df) : df[i].yearID > current_year
        /\ (\A i \in 1..Len(df) : df[i].yearID >= 1871 /\ df[i].yearID <= current_year)
               => /\ ~Emitted("year_range", "warning")
                  /\ ~Emitted("year_range", "fail")

\* a table of 1870 and of next year's season drew both year_range findings
C19_Witness ==
    /\ Returned
    /\ \E i \in 1..Len(df) : df[i].yearID = 1870
    /\ \E i \in 1..Len(df) : df[i].yearID = current_year + 1
    /\ Emitted("year_range", "warning")
    /\ Emitted("year_range", "fail")

-----------------------------------------------------------------------------
(* validate_against_external_sources                                       *)

\* (year, teamID, expected_wins, expected_losses, description)
known_facts ==
    << [year |-> 1906, team_id |-> "CHN", exp_w |-> 116, exp_l |-> 36,
        description |-> "Cubs record-setting season"],
       [year |-> 1962, team_id |-> "NYN", exp_w |-> 40, exp_l |-> 120,
        description |-> "Mets worst season"],
       [year |-> 2001, team_id |-> "SEA", exp_w |-> 116, exp_l |-> 46,
        description |-> "Mariners tied AL record"],
       [year |-> 1899, team_id |-> "CL4", exp_w |-> 20, exp_l |-> 134,
        description |-> "Cleveland Spiders worst record ever"] >>

\* df[(df['yearID'] == year) & (df['teamID'] == team_id)]
matching_rows(table, fact) ==
    SelectSeq(table, LAMBDA row : row.yearID = fact.year /\ row.teamID = fact.team_id)

\* the slip of comparing the wins alone
record_differs_in_wins(row, fact) == row.W # fact.exp_w

\* row['W'] != exp_w or row['L'] != exp_l
record_differs(row, fact) == row.W # fact.exp_w \/ row.L # fact.exp_l

\* the finding of one known fact
fact_finding(table, fact) ==
    IF matching_rows(table, fact) = <<>>
    THEN ValidationResult("historical_facts", "warning",
             <<"Missing data for known historical fact: ", fact.description,
               " (", fact.year, ")">>, None)
    ELSE LET row == matching_rows(table, fact)[1]
         IN  IF record_differs(row, fact)
             THEN ValidationResult("historical_facts", "fail",
                      <<"Historical fact mismatch: ", fact.description,
                        " - Expected ", fact.exp_w, "-", fact.exp_l,
                        ", got ", row.W, "-", row.L>>, None)
             ELSE ValidationResult("historical_facts", "pass",
                      <<"Confirmed historical fact: ", fact.description>>, None)

\* the first column the function reads that the table lacks, None if none
external_missing(table, cols) ==
    LET matched == \E k \in 1..Len(known_facts) :
                       matching_rows(table, known_facts[k]) # <<>>
    IN  IF "yearID" \notin cols THEN Some("yearID")
        ELSE IF "teamID" \notin cols THEN Some("teamID")
        ELSE IF matched /\ "W" \notin cols THEN Some("W")
        ELSE IF matched /\ "L" \notin cols THEN Some("L")
        ELSE None

\* the findings of a table that has every column the function reads
validate_against_external_sources(table) ==
    [k \in 1..Len(known_facts) |-> fact_finding(table, known_facts[k])]

-----------------------------------------------------------------------------
(* SpecFacts: validate_against_external_sources on bounded tables.         *)

\* the row load_lahman_teams makes of a file's row: G = W + L and W_pct =
\* W / G rounded to three decimals, 0 where G is 0
LoadedRecord(yearID, teamID, franchID, lgID, W, L) ==
    SeasonRecord(yearID, teamID, franchID, lgID, W, L, W + L,
        IF W + L = 0 THEN 0 ELSE (2000 * W + (W + L)) \div (2 * (W + L)))

\* seasons that match a known fact, contradict it, or share only its year
\* or only its team
FactRows ==
    { LoadedRecord(1906, "CHN", "CHC", "NL", w, l) : w \in {116, 100}, l \in {36, 40} }
    \cup { LoadedRecord(1962, "NYN", "NYM", "NL", 40, l) : l \in {120, 121} }
    \cup { LoadedRecord(2001, "SEA", "SEA", "AL", 116, 46),
           LoadedRecord(1899, "CL4", "CLS", "NL", 20, 134),
           LoadedRecord(1906, "NYN", "NYM", "NL", 116, 36),
           LoadedRecord(1962, "CHN", "CHC", "NL", 116, 36) }

FactColumnSets == { AllColumns \ absent : absent \in SUBSET {"teamID", "W", "L"} }

ValidateAgainstExternalSources ==
    /\ results = None
    /\ raised = None
    /\ IF external_missing(df, df_columns) # None
       THEN /\ raised' = Some(KeyError(external_missing(df, df_columns)[1]))
            /\ results' = None
       ELSE /\ raised' = None
            /\ results' = Some(validate_against_external_sources(df))
    /\ UNCHANGED <<df, df_columns, current_year, run>>
    /\ UNCHANGED mapperVars
    /\ UNCHANGED annotationVars

InitFacts ==
    /\ MapperReady("FranchiseMapper", SourceRegistry)
    /\ df \in TablesOf(FactRows)
    /\ df_columns \in FactColumnSets
    /\ current_year = 2026
    /\ results = None
    /\ raised = None
    /\ run = [pc |-> "idle"]

NextFacts == ValidateAgainstExternalSources

SpecFacts == InitFacts /\ [][NextFacts]_vars

\* the rows of the table for a year and a team, in the table's order
SeasonsOf(year, team_id) ==
    SelectSeq(df, LAMBDA row : row.yearID = year /\ row.teamID = team_id)

\* C13: one finding per entry of the known-facts table, in its order:
\* warning if no row matches (year, teamID), fail citing the expected W-L if
\* the matching row (the first, where the table repeats the season) differs
\* in W or L, pass if both match; (1906, CHN, 116, 36) passes and the same
\* row with L = 40 fails citing 116-36
C13_OneFindingPerFact ==
    Returned =>
        /\ Len(results[1]) = 4
        /\ \A k \in 1..4 :
               LET fact  == known_facts[k]
                   found == results[1][k]
                   rows  == SeasonsOf(fact.year, fact.team_id)
               IN  /\ found.check_name = "historical_facts"
                   /\ rows = <<>> => found.status = "warning"
                   /\ rows # <<>> /\ (rows[1].W # fact.exp_w \/ rows[1].L # fact.exp_l)
                          => /\ found.status = "fail"
                             /\ found.message[4] = fact.exp_w
                             /\ found.message[6] = fact.exp_l
                   /\ rows # <<>> /\ rows[1].W = fact.exp_w /\ rows[1].L = fact.exp_l
                          => found.status = "pass"
        /\ LET cubs == SeasonsOf(1906, "CHN")
           IN  /\ cubs # <<>> /\ cubs[1].W = 116 /\ cubs[1].L = 36
                      => results[1][1].status = "pass"
               /\ cubs # <<>> /\ cubs[1].W = 116 /\ cubs[1].L = 40
                      => /\ results[1][1].status = "fail"
                         /\ results[1][1].message[4] = 116
                         /\ results[1][1].message[6] = 36

\* the 1906 Cubs at 116-40 failed citing 116-36, the 1962 Mets at 40-120
\* passed, and the two facts without a row drew warnings
C13_Witness ==
    /\ Returned
    /\ Len(df) = 2
    /\ df[1].teamID = "CHN" /\ df[1].yearID = 1906 /\ df[1].W = 116 /\ df[1].L = 40
    /\ df[2].teamID = "NYN" /\ df[2].yearID = 1962 /\ df[2].L = 120
    /\ results[1][1].status = "fail"
    /\ results[1][1].message[4] = 116 /\ results[1][1].message[6] = 36
    /\ results[1][2].status = "pass"
    /\ results[1][3].status = "warning"
    /\ results[1][4].status = "warning"

-----------------------------------------------------------------------------
(* validate_franchise_continuity                                           *)

\* the orders sort_values('yearID') can leave a table in: by year, rows of
\* one year in any order (the default sort is not stable)
SortedOrders(table) ==
    { order \in Permutations(1..Len(table)) :
        \A i, j \in 1..Len(table) :
            i < j => table[order[i]].yearID <= table[order[j]].yearID }

\* df[df['franchID'].isin(lineage.lahman_ids)].sort_values('yearID')
franchise_data(table, lineage, order) ==
    SelectSeq([i \in 1..Len(table) |-> table[order[i]]],
         LAMBDA row : row.franchID \in Range(lineage.lahman_ids))

\* franchise_data[franchise_data['yearID'] == year]
rows_of_year(data, year) == SelectSeq(data, LAMBDA row : row.yearID = year)

\* the slip of exempting no franchise from the league check
league_exempt_none(canonical_id) == FALSE

\* canonical_id != 'HOU' is what lets a league change count
league_exempt(canonical_id) == canonical_id = "HOU"

\* the findings of one relocation of one lineage
boundary_findings(data, lineage, relocation) ==
    LET pre_reloc  == rows_of_year(data, relocation.year - 1)
        post_reloc == rows_of_year(data, relocation.year)
    IN  IF pre_reloc # <<>> /\ post_reloc # <<>>
        THEN LET pre_fid     == pre_reloc[1].franchID
                 post_fid    == post_reloc[1].franchID
                 pre_league  == pre_reloc[1].lgID
                 post_league == post_reloc[1].lgID
             IN  (IF /\ lineage.canonical_id = "ATL"
                     /\ relocation.year = 1953
                     /\ pre_fid = post_fid
                  THEN << ValidationResult("franchise_id_continuity", "warning",
                              <<lineage.canonical_id, ": franchID did not change at ",
                                relocation.year, " relocation">>, None) >>
                  ELSE <<>>)
                 \o
                 (IF pre_league # post_league /\ ~league_exempt(lineage.canonical_id)
                  THEN << ValidationResult("league_continuity", "warning",
                              <<lineage.canonical_id, ": League changed from ",
                                pre_league, " to ", post_league, " at ",
                                relocation.year>>, None) >>
                  ELSE <<>>)
        ELSE <<>>

\* for relocation in lineage.relocations, from the j-th on
RECURSIVE relocation_loop(_, _, _)
relocation_loop(data, lineage, j) ==
    IF j > Len(lineage.relocations) THEN <<>>
    ELSE boundary_findings(data, lineage, lineage.relocations[j])
         \o relocation_loop(data, lineage, j + 1)

\* for canonical_id, lineage in mapper.lineages.items(), from the i-th on
RECURSIVE lineage_loop(_, _, _, _)
lineage_loop(table, lins, order, i) ==
    IF i > Len(lins) THEN <<>>
    ELSE LET data == franchise_data(table, lins[i], order)
         IN  (IF data = <<>> THEN <<>> ELSE relocation_loop(data, lins[i], 1))
             \o lineage_loop(table, lins, order, i + 1)

\* the first column the function reads that the table lacks, None if none
continuity_missing(table, cols, lins) ==
    LET with_data == { i \in 1..Len(lins) :
                         \E k \in 1..Len(table) :
                             table[k].franchID \in Range(lins[i].lahman_ids) }
        both_rows == \E i \in with_data : \E j \in 1..Len(lins[i].relocations) :
                         /\ \E k \in 1..Len(table) :
                                /\ table[k].franchID \in Range(lins[i].lahman_ids)
                                /\ table[k].yearID = lins[i].relocations[j].year - 1
                         /\ \E k \in 1..Len(table) :
                                /\ table[k].franchID \in Range(lins[i].lahman_ids)
                                /\ table[k].yearID = lins[i].relocations[j].year
    IN  IF lins # <<>> /\ "franchID" \notin cols THEN Some("franchID")
        ELSE IF with_data # {} /\ "yearID" \notin cols THEN Some("yearID")
        ELSE IF both_rows /\ "lgID" \notin cols THEN Some("lgID")
        ELSE None

\* the findings of a table that has every column the function reads
validate_franchise_continuity(table, lins, order) ==
    lineage_loop(table, lins, order, 1)

-----------------------------------------------------------------------------
(* SpecContinuity: validate_franchise_continuity on bounded tables.        *)

\* FranchiseMapper's ATL entry beside a HOU entry without relocations (the
\* source's) or with one, which is what reaches the league exemption
ContinuityRegistries ==
    { << FranchiseLineage("ATL", AtlantaIds("FranchiseMapper"), SourceRelocations("ATL")),
         FranchiseLineage("HOU", <<"HOU">>, h) >> :
        h \in { <<>>, <<RelocationEvent(1966)>> } }

\* seasons on either side of the 1953 and 1966 boundaries, in either league
ContinuityRows ==
    { LoadedRecord(y, id, id, lg, 81, 81) :
        y \in {1952, 1953, 1965, 1966}, id \in {"BSN", "ML1", "HOU"},
        lg \in {"NL", "AL"} }

ContinuityColumnSets == { AllColumns \ absent : absent \in SUBSET {"yearID", "lgID"} }

ValidateFranchiseContinuity ==
    /\ results = None
    /\ raised = None
    /\ IF continuity_missing(df, df_columns, lineages) # None
       THEN /\ raised' = Some(KeyError(continuity_missing(df, df_columns, lineages)[1]))
            /\ results' = None
       ELSE /\ raised' = None
            /\ \E order \in SortedOrders(df) :
                   results' = Some(validate_franchise_continuity(df, lineages, order))
    /\ UNCHANGED <<df, df_columns, current_year, run>>
    /\ UNCHANGED mapperVars
    /\ UNCHANGED annotationVars

InitContinuity ==
    /\ \E lins \in ContinuityRegistries : MapperReady("FranchiseMapper", lins)
    /\ df \in TablesOf(ContinuityRows)
    /\ df_columns \in ContinuityColumnSets
    /\ current_year = 2026
    /\ results = None
    /\ raised = None
    /\ run = [pc |-> "idle"]

NextContinuity == ValidateFranchiseContinuity

SpecContinuity == InitContinuity /\ [][NextContinuity]_vars

\* the rows of the table a lineage claims for a year
LineageSeasons(lineage, year) ==
    SelectSeq(df, LAMBDA row : row.franchID \in Range(lineage.lahman_ids)
                          /\ row.yearID = year)

\* the leagues of a list of rows
Leagues(rows) == { rows[i].lgID : i \in 1..Len(rows) }

\* a warning league_continuity finding for a lineage's boundary is in a list
LeagueWarning(findings, canonical_id, year) ==
    \E i \in 1..Len(findings) :
        /\ findings[i].check_name = "league_continuity"
        /\ findings[i].status = "warning"
        /\ findings[i].message[1] = canonical_id
        /\ findings[i].message[7] = year

\* C20: at every relocation boundary where the (year - 1) row and the
\* relocation-year row of the lineage exist (each side in one league), a
\* warning league_continuity finding is emitted iff the two leagues differ
\* and the franchise is not HOU, the exempted one; no finding of the check
\* is a fail
C20_LeagueContinuity ==
    Returned =>
        /\ \A i \in 1..Len(lineages) : \A j \in 1..Len(lineages[i].relocations) :
               LET year == lineages[i].relocations[j].year
                   pre  == Leagues(LineageSeasons(lineages[i], year - 1))
                   post == Leagues(LineageSeasons(lineages[i], year))
               IN  Cardinality(pre) = 1 /\ Cardinality(post) = 1 =>
                       (LeagueWarning(results[1], lineages[i].canonical_id, year)
                            <=> pre # post /\ lineages[i].canonical_id # "HOU")
        /\ \A k \in 1..Len(results[1]) : results[1][k].status # "fail"

\* HOU changed league at its boundary and drew no warning
C20_WitnessExempt ==
    /\ Returned
    /\ \E i \in 1..Len(lineages) :
           /\ lineages[i].canonical_id = "HOU"
           /\ lineages[i].relocations # <<>>
           /\ Leagues(LineageSeasons(lineages[i], 1965)) = {"NL"}
           /\ Leagues(LineageSeasons(lineages[i], 1966)) = {"AL"}
    /\ results[1] = <<>>

\* ATL changed league at its 1953 boundary and drew the warning
C20_Witness ==
    /\ Returned
    /\ Leagues(LineageSeasons(lineages[1], 1952)) = {"NL"}
    /\ Leagues(LineageSeasons(lineages[1], 1953)) = {"AL"}
    /\ LeagueWarning(results[1], "ATL", 1953)

-----------------------------------------------------------------------------
(* check_data_completeness                                                 *)

MIN_SEASONS_PRE == 10

MIN_SEASONS_POST == 10

\* one entry of insufficient_data, None for a lineage the loop passes over
completeness_entry(table, lineage) ==
    LET data == SelectSeq(table, LAMBDA row : row.franchID \in Range(lineage.lahman_ids))
        latest_relocation == LatestRelocation(lineage.relocations)
        pre_count  == Len(SelectSeq(data, LAMBDA row : row.yearID < latest_relocation.year))
        post_count == Len(SelectSeq(data, LAMBDA row : row.yearID >= latest_relocation.year))
    IN  IF lineage.relocations = <<>> \/ data = <<>> THEN None
        ELSE Some([franchise |-> lineage.canonical_id,
                   relocation_year |-> latest_relocation.year,
                   pre_seasons |-> pre_count,
                   post_seasons |-> post_count,
                   sufficient_for_analysis |->
                       ~(pre_count < MIN_SEASONS_PRE \/ post_count < MIN_SEASONS_POST)])

\* insufficient_data, the entries of the lineages from the i-th on
RECURSIVE insufficient_data_from(_, _, _)
insufficient_data_from(table, lins, i) ==
    IF i > Len(lins) THEN <<>>
    ELSE completeness_entry(table, lins[i]) \o insufficient_data_from(table, lins, i + 1)

insufficient_data(table, lins) == insufficient_data_from(table, lins, 1)

\* the first column the function reads that the table lacks, None if none
completeness_missing(table, cols, lins) ==
    LET relocated == { i \in 1..Len(lins) : lins[i].relocations # <<>> }
    IN  IF relocated # {} /\ "franchID" \notin cols THEN Some("franchID")
        ELSE IF /\ \E i \in relocated : \E k \in 1..Len(table) :
                       table[k].franchID \in Range(lins[i].lahman_ids)
                /\ "yearID" \notin cols
             THEN Some("yearID")
        ELSE None

\* the findings of a table that has every column the function reads
check_data_completeness(table, lins) ==
    LET entries == insufficient_data(table, lins)
        insufficient_count ==
            Len(SelectSeq(entries, LAMBDA d : ~d.sufficient_for_analysis))
    IN  IF insufficient_count > 0
        THEN << ValidationResult("statistical_sufficiency", "warning",
                    <<insufficient_count,
                      " franchises have insufficient data for robust statistical analysis">>,
                    Some([franchise_data_counts |-> entries])) >>
        ELSE << ValidationResult("statistical_sufficiency", "pass",
                    <<"All relocated franchises have sufficient data for statistical analysis">>,
                    None) >>

-----------------------------------------------------------------------------
(* SpecCompleteness: check_data_completeness on tables of consecutive      *)
(* seasons on either side of a franchise's latest relocation.              *)

\* FranchiseMapper's ATL, LAD and HOU entries
CompletenessRegistry ==
    << FranchiseLineage("ATL", AtlantaIds("FranchiseMapper"), SourceRelocations("ATL")),
       FranchiseLineage("LAD", <<"BRO", "LAD", "LAN">>, SourceRelocations("LAD")),
       FranchiseLineage("HOU", <<"HOU">>, SourceRelocations("HOU")) >>

\* the seasons first..last of a team that plays under one raw identifier
SeasonRun(id, first, last) ==
    [k \in 1..(IF last < first THEN 0 ELSE last - first + 1) |->
        LoadedRecord(first + k - 1, id, id, "NL", 81, 81)]

\* the seasons of a franchise, before of them up to the year ahead of the
\* split year and after of them from the split year on
SeasonsAround(id_before, id_after, year, before, after) ==
    SeasonRun(id_before, year - before, year - 1)
    \o SeasonRun(id_after, year, year + after - 1)

\* the tables of the model: the Braves around 1966, the Dodgers around 1958,
\* and Houston's first seasons or none
CompletenessTables ==
    { SeasonsAround("ML1", "ATL", 1966, pre, post)
      \o SeasonsAround("BRO", "LAD", 1958, lad[1], lad[2])
      \o SeasonRun("HOU", 1962, 1961 + hou) :
        pre \in 0..MaxSeasons, post \in 0..MaxSeasons,
        lad \in {<<0, 0>>, <<8, 12>>, <<10, 10>>}, hou \in {0, 2} }

CheckDataCompleteness ==
    /\ results = None
    /\ raised = None
    /\ IF completeness_missing(df, df_columns, lineages) # None
       THEN /\ raised' = Some(KeyError(completeness_missing(df, df_columns, lineages)[1]))
            /\ results' = None
       ELSE /\ raised' = None
            /\ results' = Some(check_data_completeness(df, lineages))
    /\ UNCHANGED <<df, df_columns, current_year, run>>
    /\ UNCHANGED mapperVars
    /\ UNCHANGED annotationVars

InitCompleteness ==
    /\ MapperReady("FranchiseMapper", CompletenessRegistry)
    /\ df \in CompletenessTables
    /\ df_columns \in { AllColumns, AllColumns \ {"yearID"} }
    /\ current_year = 2026
    /\ results = None
    /\ raised = None
    /\ run = [pc |-> "idle"]

NextCompleteness == CheckDataCompleteness

SpecCompleteness == InitCompleteness /\ [][NextCompleteness]_vars

\* the latest of a relocated lineage's relocation years
PrimaryYearOf(lineage) ==
    MaxOf({ lineage.relocations[j].year : j \in 1..Len(lineage.relocations) })

\* the rows of the table a lineage claims, before or from its primary
\* relocation year on
SeasonsBefore(lineage) ==
    Len(SelectSeq(df, LAMBDA row : /\ row.franchID \in Range(lineage.lahman_ids)
                              /\ row.yearID < PrimaryYearOf(lineage)))

SeasonsFrom(lineage) ==
    Len(SelectSeq(df, LAMBDA row : /\ row.franchID \in Range(lineage.lahman_ids)
                              /\ row.yearID >= PrimaryYearOf(lineage)))

\* >= 10 seasons on each side of the primary relocation year
Sufficient(lineage) == SeasonsBefore(lineage) >= 10 /\ SeasonsFrom(lineage) >= 10

\* the table holds seasons of a relocated franchise
HasRelocatedSeasons ==
    \E i \in 1..Len(lineages) :
        /\ lineages[i].relocations # <<>>
        /\ \E k \in 1..Len(df) : df[k].franchID \in Range(lineages[i].lahman_ids)

\* C15 as stated, on a table that holds seasons of a relocated franchise:
\* check_data_completeness returns a single statistical_sufficiency
\* finding, warning iff at least one relocated franchise of the registry
\* has fewer than 10 rows before its primary relocation year or fewer than
\* 10 from it on, and pass otherwise
C15_SufficiencyOfEveryRelocated ==
    Returned /\ HasRelocatedSeasons =>
        /\ Len(results[1]) = 1
        /\ results[1][1].check_name = "statistical_sufficiency"
        /\ results[1][1].status =
               (IF \E i \in 1..Len(lineages) :
                       lineages[i].relocations # <<>> /\ ~Sufficient(lineages[i])
                THEN "warning" ELSE "pass")

-----------------------------------------------------------------------------
(* run_all_validations                                                     *)

\* the first column one of the four checks reads that the table lacks, in
\* the order they are called; validate_basic_data_quality reads only the
\* columns the table has
run_all_missing(table, cols, lins) ==
    IF historical_missing(table, cols) # None THEN historical_missing(table, cols)
    ELSE IF continuity_missing(table, cols, lins) # None
         THEN continuity_missing(table, cols, lins)
    ELSE external_missing(table, cols)

\* all_results of a table that has every column the checks read
run_all_validations(table, cols, lins, now, order) ==
    << [key |-> "basic_quality", value |-> validate_basic_data_quality(table, cols)],
       [key |-> "historical_accuracy", value |-> validate_historical_accuracy(table, now)],
       [key |-> "franchise_continuity",
        value |-> validate_franchise_continuity(table, lins, order)],
       [key |-> "external_validation",
        value |-> validate_against_external_sources(table)] >>

-----------------------------------------------------------------------------
(* SpecEngine: run_all_validations on bounded tables.                      *)

\* seasons of the Braves around their boundaries, of Houston, and of the
\* 1906 Cubs as recorded and as contradicted
EngineRows ==
    { LoadedRecord(1952, "BSN", "BSN", "NL", 64, 89),
      LoadedRecord(1953, "ML1", "ML1", "NL", 92, 62),
      LoadedRecord(1960, "ML1", "ML1", "NL", 88, 66),
      LoadedRecord(1965, "ML1", "ML1", "NL", 86, 76),
      LoadedRecord(1966, "ATL", "ATL", "NL", 85, 77),
      LoadedRecord(1962, "HOU", "HOU", "NL", 64, 96),
      LoadedRecord(1906, "CHN", "CHC", "NL", 116, 36),
      LoadedRecord(1906, "CHN", "CHC", "NL", 116, 40) }

RunAllValidations ==
    /\ results = None
    /\ raised = None
    /\ IF run_all_missing(df, df_columns, lineages) # None
       THEN /\ raised' = Some(KeyError(run_all_missing(df, df_columns, lineages)[1]))
            /\ results' = None
       ELSE /\ raised' = None
            /\ \E order \in SortedOrders(df) :
                   results' = Some(run_all_validations(df, df_columns, lineages,
                                                       current_year, order))
    /\ UNCHANGED <<df, df_columns, current_year, run>>
    /\ UNCHANGED mapperVars
    /\ UNCHANGED annotationVars

InitEngine ==
    /\ MapperReady("FranchiseMapper", SourceRegistry)
    /\ df \in TablesOf(EngineRows)
    /\ df_columns \in ColumnSets
    /\ current_year = 2026
    /\ results = None
    /\ raised = None
    /\ run = [pc |-> "idle"]

NextEngine == RunAllValidations

SpecEngine == InitEngine /\ [][NextEngine]_vars

CheckCategories ==
    {"basic_quality", "historical_accuracy", "franchise_continuity", "external_validation"}

\* C11: run_all_validations never aborts: on every table (here, every table
\* with a row), one without yearID, G or W_pct included, it raises nothing
\* and returns findings under every check category
C11_NeverAborts ==
    df # <<>> =>
        /\ raised = None
        /\ results # None =>
               { results[1][i].key : i \in 1..Len(results[1]) } = CheckCategories

\* C14: for every lineage with data and every relocation of it, if the table
\* (here, one with all nine columns) has no row of the lineage for the year
\* before the relocation or none for the relocation year, the
\* franchise_continuity findings run_all_validations returns hold a fail
\* finding for that boundary
C14_MissingBoundaryFails ==
    Returned /\ df_columns = AllColumns =>
        \A i \in 1..Len(lineages) : \A j \in 1..Len(lineages[i].relocations) :
            LET year  == lineages[i].relocations[j].year
                found == DictGet(results[1], "franchise_continuity")
            IN  /\ \E k \in 1..Len(df) : df[k].franchID \in Range(lineages[i].lahman_ids)
                /\ \/ LineageSeasons(lineages[i], year - 1) = <<>>
                   \/ LineageSeasons(lineages[i], year) = <<>>
                => \E k \in 1..Len(found) :
                       /\ found[k].status = "fail"
                       /\ lineages[i].canonical_id \in Range(found[k].message)
                       /\ year \in Range(found[k].message)

-----------------------------------------------------------------------------
(* The enhanced pipeline: load_and_validate_data,                          *)
(* create_relocation_analysis_dataset and main.                            *)

REQUIRED_COLS == <<"yearID", "teamID", "franchID", "lgID", "W", "L", "name">>

\* load_lahman_teams: the seven columns kept, G and W_pct computed anew
load_lahman_teams(file) ==
    [k \in 1..Len(file) |->
        LoadedRecord(file[k].yearID, file[k].teamID, file[k].franchID,
                     file[k].lgID, file[k].W, file[k].L)]

\* a finding of status fail is among the results of some category
critical_failures(validation_results) ==
    \E c \in 1..Len(validation_results) :
        \E k \in 1..Len(validation_results[c].value) :
            validation_results[c].value[k].status = "fail"

\* lineage.founded_year
founded_year(canonical_id) ==
    CASE canonical_id = "ATL" -> 1876
      [] canonical_id = "LAD" -> 1884
      [] canonical_id = "HOU" -> 1962

\* pd.cut(yearID, bins=[0, 1900, 1920, 1940, 1960, 1980, 2000, 2030]), each
\* bin closed on the right; NaN outside the bins
era(yearID) ==
    IF yearID <= 0 \/ yearID > 2030 THEN NaN
    ELSE IF yearID <= 1900 THEN "Pre-1900"
    ELSE IF yearID <= 1920 THEN "1900-1919"
    ELSE IF yearID <= 1940 THEN "1920-1939"
    ELSE IF yearID <= 1960 THEN "1940-1959"
    ELSE IF yearID <= 1980 THEN "1960-1979"
    ELSE IF yearID <= 2000 THEN "1980-1999"
    ELSE "2000+"

\* df_annotated.loc[mask, 'franchise_age'] = yearID - lineage.founded_year
RECURSIVE franchise_age_loop(_, _, _)
franchise_age_loop(row, lins, i) ==
    IF i > Len(lins) THEN row
    ELSE franchise_age_loop(
             IF row.canonical_franchise = lins[i].canonical_id
             THEN [row EXCEPT !.franchise_age =
                       row.yearID - founded_year(lins[i].canonical_id)]
             ELSE row,
             lins, i + 1)

\* the seasons within two years of a relocation of the row's franchise
RECURSIVE context_of_relocations(_, _, _)
context_of_relocations(row, lineage, j) ==
    IF j > Len(lineage.relocations) THEN row
    ELSE context_of_relocations(
             IF /\ row.canonical_franchise = lineage.canonical_id
                /\ row.yearID >= lineage.relocations[j].year - 2
                /\ row.yearID <= lineage.relocations[j].year + 2
             THEN [row EXCEPT !.relocation_context = EraLabel(lineage.relocations[j])]
             ELSE row,
             lineage, j + 1)

RECURSIVE relocation_context_loop(_, _, _)
relocation_context_loop(row, lins, i) ==
    IF i > Len(lins) THEN row
    ELSE relocation_context_loop(context_of_relocations(row, lins[i], 1), lins, i + 1)

\* the table create_relocation_analysis_dataset writes and returns
create_relocation_analysis_dataset(table) ==
    LET annotated == create_annotated_dataset(table)
    IN  [k \in 1..Len(annotated) |->
            relocation_context_loop(
                franchise_age_loop(
                    AssignColumns(annotated[k],
                        [era |-> era(annotated[k].yearID), franchise_age |-> 0,
                         relocation_context |-> "none"]),
                    lineages, 1),
                lineages, 1)]

-----------------------------------------------------------------------------
(* SpecPipeline: one run of main on a bounded file.                        *)

\* rows of the file: seasons that validate, and two that draw a fail (the
\* 1906 Cubs contradicted, a season of next year)
PipelineRows ==
    { LoadedRecord(1906, "CHN", "CHC", "NL", 116, 36),
      LoadedRecord(1906, "CHN", "CHC", "NL", 116, 40),
      LoadedRecord(1953, "ML1", "ML1", "NL", 92, 62),
      LoadedRecord(1966, "ATL", "ATL", "NL", 85, 77),
      LoadedRecord(1962, "HOU", "HOU", "NL", 64, 96),
      LoadedRecord(2027, "HOU", "HOU", "AL", 81, 81) }

\* the columns of the file: the loader's seven with or without G and W_pct,
\* or short of one of the seven
FileColumnSets ==
    { Range(REQUIRED_COLS) \cup extra : extra \in SUBSET {"G", "W_pct"} }
    \cup { Range(REQUIRED_COLS) \ {"name"} }

\* df = load_and_validate_data(args.lahman, mapper); if df is None: return 1
LoadAndValidateData ==
    /\ run.pc = "start"
    /\ IF ~(Range(REQUIRED_COLS) \subseteq run.file_columns)
       THEN /\ raised' = Some(<<"ValueError",
                                SelectSeq(REQUIRED_COLS,
                                          LAMBDA c : c \notin run.file_columns)>>)
            /\ run' = [run EXCEPT !.pc = "raised"]
            /\ UNCHANGED <<df, df_columns, results>>
       ELSE /\ df' = load_lahman_teams(run.file)
            /\ df_columns' = AllColumns
            /\ IF run_all_missing(df', df_columns', lineages) # None
               THEN /\ raised' = Some(KeyError(
                                     run_all_missing(df', df_columns', lineages)[1]))
                    /\ results' = None
                    /\ run' = [run EXCEPT !.pc = "raised"]
               ELSE /\ raised' = None
                    /\ \E order \in SortedOrders(df') :
                           results' = Some(run_all_validations(df', df_columns', lineages,
                                                               current_year, order))
                    /\ run' = IF critical_failures(results'[1])
                              THEN [run EXCEPT !.pc = "done", !.exit_code = Some(1)]
                              ELSE [run EXCEPT !.pc = "validated"]
    /\ UNCHANGED current_year
    /\ UNCHANGED mapperVars
    /\ UNCHANGED annotationVars

\* df_enhanced = create_relocation_analysis_dataset(df, mapper, args.output)
CreateRelocationAnalysisDataset ==
    /\ run.pc = "validated"
    /\ df_annotated' = Some(create_relocation_analysis_dataset(df))
    /\ run' = [run EXCEPT !.pc = "written", !.output = df_annotated']
    /\ UNCHANGED <<df, df_columns, current_year, results, raised, lookup,
                   mapped_data, calls>>
    /\ UNCHANGED mapperVars

\* the rest of main: with --validation-report and without --skip-validation,
\* run_comprehensive_validation reads the file anew with pd.read_csv and
\* calls run_all_validations on it before the report is written; return 0
ReportAndReturn ==
    /\ run.pc = "written"
    /\ IF ~run.skip_validation /\ run.validation_report
       THEN IF run_all_missing(run.file, run.file_columns, lineages) # None
            THEN /\ raised' = Some(KeyError(
                         run_all_missing(run.file, run.file_columns, lineages)[1]))
                 /\ run' = [run EXCEPT !.pc = "raised"]
            ELSE /\ raised' = None
                 /\ run' = [run EXCEPT !.pc = "done", !.report_saved = TRUE,
                                       !.exit_code = Some(0)]
       ELSE /\ raised' = None
            /\ run' = [run EXCEPT !.pc = "done", !.exit_code = Some(0)]
    /\ UNCHANGED <<df, df_columns, current_year, results>>
    /\ UNCHANGED mapperVars
    /\ UNCHANGED annotationVars

InitPipeline ==
    /\ MapperReady("FranchiseMapper", SourceRegistry)
    /\ df = <<>>
    /\ df_columns = {}
    /\ current_year = 2026
    /\ results = None
    /\ raised = None
    /\ \E file \in TablesOf(PipelineRows), file_columns \in FileColumnSets,
          validation_report \in BOOLEAN, skip_validation \in BOOLEAN :
           run = [pc |-> "start", file |-> file, file_columns |-> file_columns,
                  validation_report |-> validation_report,
                  skip_validation |-> skip_validation,
                  exit_code |-> None, output |-> None, report_saved |-> FALSE]

NextPipeline ==
    \/ LoadAndValidateData
    \/ CreateRelocationAnalysisDataset
    \/ ReportAndReturn

SpecPipeline == InitPipeline /\ [][NextPipeline]_vars

\* run_all_validations has returned a finding of status fail
FailFound ==
    /\ results # None
    /\ \E c \in 1..Len(results[1]) : \E k \in 1..Len(results[1][c].value) :
           results[1][c].value[k].status = "fail"

\* the run is over: main has returned or raised
RunOver == run.pc \in {"done", "raised"}

\* C12: the annotated output is written only in runs where run_all_validations
\* produced no fail finding: a fail finding makes main return 1 before any
\* annotation or write; findings that are only pass or warning never block,
\* and main then (here, on a file with a row) annotates, writes the output
\* and returns 0
C12_OutputOnlyWithoutFail ==
    /\ run.output # None => results # None /\ ~FailFound
    /\ FailFound => /\ run.pc = "done"
                    /\ run.exit_code = Some(1)
                    /\ run.output = None
                    /\ df_annotated = None
    /\ run.file # <<>> /\ results # None /\ ~FailFound /\ RunOver =>
           /\ df_annotated # None
           /\ run.output # None
           /\ run.exit_code = Some(0)

-----------------------------------------------------------------------------
(* validate_relocation_data (franchise_mapping.py)                         *)

\* relocation.to_city of FranchiseMapper's ATL and LAD entries
to_city(canonical_id, year) ==
    CASE canonical_id = "ATL" /\ year = 1953 -> "Milwaukee"
      [] canonical_id = "ATL" /\ year = 1966 -> "Atlanta"
      [] canonical_id = "LAD" /\ year = 1958 -> "Los Angeles"
      [] OTHER -> ""

\* str.split() of the cities above
split(city) ==
    CASE city = "Milwaukee"   -> <<"Milwaukee">>
      [] city = "Atlanta"     -> <<"Atlanta">>
      [] city = "Los Angeles" -> <<"Los", "Angeles">>
      [] OTHER -> <<>>

\* the team names of the model's tables
TeamNames == {"Boston Braves", "Milwaukee Braves", "Atlanta Braves"}

\* part.lower() in name.lower(), for the names and city parts above
lower_in(part, name) ==
    \/ part = "Milwaukee" /\ name = "Milwaukee Braves"
    \/ part = "Atlanta" /\ name = "Atlanta Braves"

\* one dict of validation_results
issue(franchise, issue_type, description, severity) ==
    [franchise |-> franchise, issue_type |-> issue_type,
     description |-> description, severity |-> severity]

\* the dicts of one relocation of one lineage
relocation_issues(data, lineage, relocation) ==
    LET pre_data   == SelectSeq(data, LAMBDA row : row.yearID = relocation.year - 1)
        reloc_data == SelectSeq(data, LAMBDA row : row.yearID = relocation.year)
        city       == to_city(lineage.canonical_id, relocation.year)
        expected_name_parts == split(city)
        name_match ==
            \E k \in 1..Len(reloc_data) : \E p \in 1..Len(expected_name_parts) :
                lower_in(expected_name_parts[p], reloc_data[k].name)
    IN  (IF pre_data = <<>>
         THEN << issue(lineage.canonical_id, "missing_pre_relocation",
                       <<"No data for year ", relocation.year - 1, " before ",
                         relocation.year, " relocation">>, "high") >>
         ELSE <<>>)
        \o
        (IF reloc_data = <<>>
         THEN << issue(lineage.canonical_id, "missing_relocation_year",
                       <<"No data for relocation year ", relocation.year>>, "high") >>
         ELSE <<>>)
        \o
        (IF reloc_data # <<>> /\ ~name_match
         THEN << issue(lineage.canonical_id, "name_mismatch",
                       <<"Team name in ", relocation.year,
                         " does not match expected city ", city>>, "medium") >>
         ELSE <<>>)

\* for i, relocation in enumerate(lineage.relocations), from the j-th on
RECURSIVE relocation_issues_from(_, _, _)
relocation_issues_from(data, lineage, j) ==
    IF j > Len(lineage.relocations) THEN <<>>
    ELSE relocation_issues(data, lineage, lineage.relocations[j])
         \o relocation_issues_from(data, lineage, j + 1)

\* the dicts of one lineage
lineage_issues(table, lineage) ==
    LET data == SelectSeq(table, LAMBDA row : row.franchID \in Range(lineage.lahman_ids))
        years == { data[k].yearID : k \in 1..Len(data) }
        year_range ==
            (CHOOSE y \in years : \A z \in years : z <= y)
            - (CHOOSE y \in years : \A z \in years : y <= z) + 1
        actual_years == Cardinality(years)
    IN  IF data = <<>>
        THEN << issue(lineage.canonical_id, "missing_data",
                      <<"No data found for franchise ", lineage.canonical_id>>, "high") >>
        ELSE (IF actual_years < year_range
              THEN << issue(lineage.canonical_id, "missing_years",
                            <<"Missing ", year_range - actual_years, " years of data">>,
                            "medium") >>
              ELSE <<>>)
             \o relocation_issues_from(data, lineage, 1)

\* for canonical_id, lineage in mapper.lineages.items(), from the i-th on
RECURSIVE validation_results_from(_, _, _)
validation_results_from(table, lins, i) ==
    IF i > Len(lins) THEN <<>>
    ELSE lineage_issues(table, lins[i]) \o validation_results_from(table, lins, i + 1)

\* the rows of the DataFrame the function returns
validate_relocation_data(table, lins) == validation_results_from(table, lins, 1)

-----------------------------------------------------------------------------
(* SpecRelocationData: validate_relocation_data on bounded tables.         *)

\* seasons of the Braves around the 1953 move, under either name, and one
\* of Houston
RelocationDataRows ==
    { [SeasonRecord(y, id, id, "NL", 80, 74, 154, 519) EXCEPT !.name = n] :
        y \in {1952, 1953, 1955}, id \in {"BSN", "ML1"},
        n \in TeamNames }
    \cup { SeasonRecord(1962, "HOU", "HOU", "NL", 64, 96, 160, 400) }

ValidateRelocationData ==
    /\ results = None
    /\ results' = Some(validate_relocation_data(df, lineages))
    /\ raised' = None
    /\ UNCHANGED <<df, df_columns, current_year, run>>
    /\ UNCHANGED mapperVars
    /\ UNCHANGED annotationVars

InitRelocationData ==
    /\ MapperReady("FranchiseMapper", SourceRegistry)
    /\ df \in TablesOf(RelocationDataRows)
    /\ df_columns = AllColumns
    /\ current_year = 2026
    /\ results = None
    /\ raised = None
    /\ run = [pc |-> "idle"]

NextRelocationData == ValidateRelocationData

SpecRelocationData == InitRelocationData /\ [][NextRelocationData]_vars

\* C21 as stated, for validate_relocation_data (here, on a table that holds
\* a season): every finding it returns carries a severity from
\* {pass, warning, fail}
C21_SeverityThreeValued ==
    Returned /\ df # <<>> =>
        \A i \in 1..Len(results[1]) :
            results[1][i].severity \in {"pass", "warning", "fail"}

-----------------------------------------------------------------------------
(* The lineage tables of the source.                                       *)

\* the lineage of a franchise that has played under one identifier
OneId(canonical_id) ==
    FranchiseLineage(canonical_id, <<canonical_id>>, SourceRelocations(canonical_id))

\* what FranchiseMapper._build_franchise_lineages returns
FranchiseMapperLineages ==
    << FranchiseLineage("ATL", <<"BSN", "ML1", "ATL">>, SourceRelocations("ATL")),
       FranchiseLineage("LAD", <<"BRO", "LAD", "LAN">>, SourceRelocations("LAD")),
       FranchiseLineage("SFG", <<"NY1", "SFN">>, SourceRelocations("SFG")),
       FranchiseLineage("OAK", <<"PHA", "KC1", "OAK">>, SourceRelocations("OAK")),
       FranchiseLineage("MIN", <<"WS1", "MIN">>, SourceRelocations("MIN")),
       FranchiseLineage("TEX", <<"WS2", "TEX">>, SourceRelocations("TEX")),
       FranchiseLineage("BAL", <<"SLA", "BAL">>, SourceRelocations("BAL")),
       FranchiseLineage("MIL", <<"SE1", "ML4", "MIL">>, SourceRelocations("MIL")),
       FranchiseLineage("WSN", <<"MON", "WAS">>, SourceRelocations("WSN")),
       FranchiseLineage("NYY", <<"BLA", "NYA">>, SourceRelocations("NYY")),
       FranchiseLineage("HOU", <<"HOU">>, SourceRelocations("HOU")),
       FranchiseLineage("FLA", <<"FLO", "MIA">>, SourceRelocations("FLA")) >>

\* what CorrectedFranchiseMapper._build_franchise_lineages returns
CorrectedFranchiseMapperLineages ==
    << OneId("ATL"), OneId("LAD"), OneId("SFG"), OneId("OAK"), OneId("MIN"),
       OneId("TEX"), OneId("BAL"), OneId("MIL"), OneId("WSN"), OneId("NYY"),
       OneId("ANA"), OneId("FLA"), OneId("BOS"), OneId("CHC"), OneId("CHW"),
       OneId("CIN"), OneId("CLE"), OneId("DET"), OneId("PHI"), OneId("PIT"),
       OneId("STL"), OneId("ARI"), OneId("COL"), OneId("HOU"), OneId("KCR"),
       OneId("NYM"), OneId("SDP"), OneId("SEA"), OneId("TBD"), OneId("TOR") >>

\* the table a mapper of either class is constructed from
SourceLineages(k) ==
    IF k = "FranchiseMapper" THEN FranchiseMapperLineages
    ELSE CorrectedFranchiseMapperLineages

-----------------------------------------------------------------------------
(* validate_relocation_analysis_readiness (final_data_validation.py)       *)
(*                                                                         *)
(* W_pct is held in thousandths, and what the code computes in floating    *)
(* point (means, variances, the effect size) is held as exact fractions    *)
(* in lowest terms; a standard deviation is held as the variance it is     *)
(* the root of.                                                            *)

RECURSIVE Gcd(_, _)
Gcd(a, b) == IF b = 0 THEN a ELSE Gcd(b, a % b)

\* num / den in lowest terms with a positive denominator
Frac(num, den) ==
    LET g == Gcd(Abs(num), Abs(den))
        s == IF den < 0 THEN -1 ELSE 1
    IN  [num |-> s * (num \div g), den |-> s * (den \div g)]

FracAdd(a, b) == Frac(a.num * b.den + b.num * a.den, a.den * b.den)

FracSub(a, b) == Frac(a.num * b.den - b.num * a.den, a.den * b.den)

\* the fraction a times the integer k, and a divided by the integer k
FracTimes(a, k) == Frac(a.num * k, a.den)

FracOver(a, k) == Frac(a.num, a.den * k)

\* lineage.current_name of the relocated entries
current_name(canonical_id) ==
    CASE canonical_id = "ATL" -> "Atlanta Braves"
      [] canonical_id = "LAD" -> "Los Angeles Dodgers"
      [] canonical_id = "SFG" -> "San Francisco Giants"
      [] canonical_id = "OAK" -> "Oakland Athletics"
      [] canonical_id = "MIN" -> "Minnesota Twins"
      [] canonical_id = "TEX" -> "Texas Rangers"
      [] canonical_id = "BAL" -> "Baltimore Orioles"
      [] canonical_id = "MIL" -> "Milwaukee Brewers"
      [] canonical_id = "WSN" -> "Washington Nationals"
      [] canonical_id = "NYY" -> "New York Yankees"
      [] OTHER -> ""

\* the sum of a column's values and of their squares
RECURSIVE wpct_sum(_)
wpct_sum(data) ==
    IF data = <<>> THEN 0 ELSE Head(data).W_pct + wpct_sum(Tail(data))

RECURSIVE wpct_squares(_)
wpct_squares(data) ==
    IF data = <<>> THEN 0 ELSE Head(data).W_pct * Head(data).W_pct + wpct_squares(Tail(data))

\* data['W_pct'].mean() of a table that holds a row
mean(data) == Frac(wpct_sum(data), Len(data))

\* data['W_pct'].var(), the sample variance: NaN for a single row
var(data) ==
    IF Len(data) < 2 THEN NaN
    ELSE Frac(Len(data) * wpct_squares(data) - wpct_sum(data) * wpct_sum(data),
              Len(data) * (Len(data) - 1))

\* data['W_pct'].std()
std(data) == IF Len(data) < 2 THEN NaN ELSE [root_of |-> var(data)]

\* the standard deviation of the pre-relocation seasons alone in place of
\* the pooled one
pre_var(pre_data, post_data) == var(pre_data)

\* the square of pooled_std; NaN when either side has a single row
pooled_var(pre_data, post_data) ==
    IF Len(pre_data) < 2 \/ Len(post_data) < 2 THEN NaN
    ELSE FracOver(FracAdd(FracTimes(var(pre_data), Len(pre_data) - 1),
                          FracTimes(var(post_data), Len(post_data) - 1)),
                  Len(pre_data) + Len(post_data) - 2)

\* abs(cohens_d) >= tenths / 10, cohens_d being diff / sqrt(pooled)
abs_at_least(cohens_d, tenths) ==
    100 * cohens_d.diff.num * cohens_d.diff.num * cohens_d.pooled.den
        >= tenths * tenths * cohens_d.diff.den * cohens_d.diff.den * cohens_d.pooled.num

\* the effect_size and effect_magnitude keys, set only when both periods
\* have data
effect_keys(pre_data, post_data) ==
    IF pre_data = <<>> \/ post_data = <<>> THEN <<>>
    ELSE IF Len(pre_data) < 2 \/ Len(post_data) < 2
    THEN [effect_size |-> None, effect_magnitude |-> "unknown"]
    ELSE IF pooled_var(pre_data, post_data).num > 0
    THEN LET cohens_d == [diff |-> FracSub(mean(post_data), mean(pre_data)),
                          pooled |-> pooled_var(pre_data, post_data)]
         IN  [effect_size |-> Some(cohens_d),
              effect_magnitude |->
                  IF abs_at_least(cohens_d, 8) THEN "large"
                  ELSE IF abs_at_least(cohens_d, 5) THEN "medium"
                  ELSE IF abs_at_least(cohens_d, 2) THEN "small"
                  ELSE "negligible"]
    ELSE [effect_size |-> None, effect_magnitude |-> "unknown"]

\* post_data['years_since_relocation'].max() of a table that holds a row;
\* every post-relocation row of the file has a value in that cell
years_since_max(data) ==
    CHOOSE y \in { data[k].years_since_relocation[1] : k \in 1..Len(data) } :
        \A k \in 1..Len(data) : data[k].years_since_relocation[1] <= y

\* franchise_analysis of one relocated franchise that has rows
franchise_analysis(table, lineage) ==
    LET franchise_rows ==
            SelectSeq(table, LAMBDA row : row.canonical_franchise = lineage.canonical_id)
        latest_relocation == LatestRelocation(lineage.relocations)
        pre_data  == SelectSeq(franchise_rows, LAMBDA row : row.pre_relocation)
        post_data == SelectSeq(franchise_rows, LAMBDA row : row.post_relocation)
    IN  effect_keys(pre_data, post_data) @@
        [franchise |-> lineage.canonical_id,
         name |-> current_name(lineage.canonical_id),
         relocation_year |-> latest_relocation.year,
         pre_seasons |-> Len(pre_data),
         post_seasons |-> Len(post_data),
         pre_avg_wpct |-> IF pre_data # <<>> THEN Some(mean(pre_data)) ELSE None,
         post_avg_wpct |-> IF post_data # <<>> THEN Some(mean(post_data)) ELSE None,
         pre_std |-> IF pre_data # <<>> THEN Some(std(pre_data)) ELSE None,
         post_std |-> IF post_data # <<>> THEN Some(std(post_data)) ELSE None,
         sufficient_for_ttest |-> Len(pre_data) >= 10 /\ Len(post_data) >= 10,
         years_since_relocation |->
             IF post_data # <<>> THEN years_since_max(post_data) ELSE 0]

\* validation['relocated_franchises'], the lineages from the i-th on
RECURSIVE relocated_franchises_from(_, _, _)
relocated_franchises_from(table, lins, i) ==
    IF i > Len(lins) THEN <<>>
    ELSE (IF /\ lins[i].relocations # <<>>
             /\ \E k \in 1..Len(table) : table[k].canonical_franchise = lins[i].canonical_id
          THEN <<franchise_analysis(table, lins[i])>>
          ELSE <<>>)
         \o relocated_franchises_from(table, lins, i + 1)

\* the sum of a list of integers
RECURSIVE SumOf(_)
SumOf(values) == IF values = <<>> THEN 0 ELSE Head(values) + SumOf(Tail(values))

\* np.mean(values) if values else 0
mean_or_zero(values) ==
    IF values = <<>> THEN Frac(0, 1) ELSE Frac(SumOf(values), Len(values))

\* validation['statistical_power']
statistical_power(relocated_franchises) ==
    LET sufficient_franchises ==
            SelectSeq(relocated_franchises, LAMBDA f : f.sufficient_for_ttest)
    IN  [total_relocated_franchises |-> Len(relocated_franchises),
         sufficient_data_franchises |-> Len(sufficient_franchises),
         insufficient_data_franchises |->
             Len(relocated_franchises) - Len(sufficient_franchises),
         ready_for_meta_analysis |-> Len(sufficient_franchises) >= 5,
         avg_pre_seasons |->
             mean_or_zero([k \in 1..Len(sufficient_franchises) |->
                              sufficient_franchises[k].pre_seasons]),
         avg_post_seasons |->
             mean_or_zero([k \in 1..Len(sufficient_franchises) |->
                              sufficient_franchises[k].post_seasons])]

\* validation['data_quality_issues']
data_quality_issues(relocated_franchises, power) ==
    LET recent_relocations ==
            SelectSeq(relocated_franchises, LAMBDA f : f.years_since_relocation < 10)
    IN  (IF power.insufficient_data_franchises > 0
         THEN << <<power.insufficient_data_franchises,
                   " franchises have insufficient data for robust t-tests">> >>
         ELSE <<>>)
        \o
        (IF recent_relocations # <<>>
         THEN << <<Len(recent_relocations),
                   " franchises have recent relocations with limited post-relocation data">> >>
         ELSE <<>>)

\* validation['recommendations']
recommendations(power) ==
    (IF power.ready_for_meta_analysis
     THEN << "Dataset is ready for meta-analysis of relocation effects" >>
     ELSE << "Consider including more franchises or historical data for stronger meta-analysis" >>)
    \o
    (IF power.insufficient_data_franchises > 0
     THEN << "Consider excluding franchises with insufficient data from primary analysis" >>
     ELSE <<>>)
    \o
    << "Use paired t-tests for individual franchise analysis",
       "Consider time-series analysis to account for temporal trends",
       "Control for era effects (deadball era, expansion era, etc.)",
       "Validate results against known historical context" >>

\* what the function returns: file is None when no file is at df_path, and
\* else the table read from it
validate_relocation_analysis_readiness(file, lins) ==
    IF file = None
    THEN [status |-> "error",
          message |-> "Analysis-ready dataset not found. Run corrected_franchise_mapping.py first."]
    ELSE LET relocated_franchises == relocated_franchises_from(file[1], lins, 1)
             power == statistical_power(relocated_franchises)
         IN  [status |-> "success",
              total_seasons |-> Len(file[1]),
              relocated_franchises |-> relocated_franchises,
              statistical_power |-> power,
              data_quality_issues |-> data_quality_issues(relocated_franchises, power),
              recommendations |-> recommendations(power)]

-----------------------------------------------------------------------------
(* print_validation_report                                                 *)

\* the keys of validation read ahead of the loop over the franchises
overview_keys == <<"total_seasons", "statistical_power">>

\* the keys of a franchise's dict read with franchise[key], in the order
\* the loop reads them
franchise_keys ==
    <<"sufficient_for_ttest", "franchise", "name", "relocation_year", "from_city",
      "to_city", "pre_seasons", "post_seasons", "pre_avg_wpct", "post_avg_wpct">>

\* the keys read after the loop
closing_keys == <<"data_quality_issues", "recommendations">>

\* the first of the keys that the dict does not hold, None if it holds all
first_absent(keys, dict) ==
    IF \E i \in 1..Len(keys) : keys[i] \notin DOMAIN dict
    THEN Some(keys[CHOOSE i \in 1..Len(keys) :
                      /\ keys[i] \notin DOMAIN dict
                      /\ \A j \in 1..(i - 1) : keys[j] \in DOMAIN dict])
    ELSE None

\* the key whose read raises KeyError, None when the report is printed whole
print_validation_report(validation) ==
    IF first_absent(overview_keys, validation) # None
    THEN first_absent(overview_keys, validation)
    ELSE IF "relocated_franchises" \notin DOMAIN validation
    THEN Some("relocated_franchises")
    ELSE IF \E k \in 1..Len(validation.relocated_franchises) :
               first_absent(franchise_keys, validation.relocated_franchises[k]) # None
    THEN first_absent(franchise_keys,
             validation.relocated_franchises[
                 CHOOSE k \in 1..Len(validation.relocated_franchises) :
                     /\ first_absent(franchise_keys, validation.relocated_franchises[k]) # None
                     /\ \A j \in 1..(k - 1) :
                            first_absent(franchise_keys, validation.relocated_franchises[j]) = None])
    ELSE first_absent(closing_keys, validation)

-----------------------------------------------------------------------------
(* SpecReadiness: main of final_data_validation.py from the call of        *)
(* validate_relocation_analysis_readiness on, with a CorrectedFranchise-   *)
(* Mapper of the source's table.  The analysis-ready file is what          *)
(* get_analysis_ready_data made of team_seasons.csv, or is not there.      *)

\* most seasons of the Braves on one side of 1966 in SpecReadiness
MaxSide == 3

\* the win percentages of the seasons, in thousandths
WinPcts == {480, 500, 520}

\* a 150-game season of the Braves with a win percentage of WinPcts
BravesSeason(yearID, pct) ==
    SeasonRecord(yearID, "ATL", "ATL", "NL", (3 * pct) \div 20, 150 - (3 * pct) \div 20,
                 150, pct)

\* the win percentages of the seasons on one side of a relocation
SideLists == UNION { [1..n -> WinPcts] : n \in 0..MaxSide }

\* team_seasons.csv: seasons of the Braves up to 1965 and from 1966 on, and
\* Houston's first season or none
ReadinessSeasons ==
    { [k \in 1..Len(pre) |-> BravesSeason(1966 - k, pre[k])]
      \o [k \in 1..Len(post) |-> BravesSeason(1965 + k, post[k])]
      \o other :
        pre \in SideLists, post \in SideLists,
        other \in { <<>>, << SeasonRecord(1962, "HOU", "HOU", "NL", 64, 96, 160, 400) >> } }

\* validation = validate_relocation_analysis_readiness()
ValidateRelocationAnalysisReadiness ==
    /\ run.pc = "start"
    /\ results' = Some(validate_relocation_analysis_readiness(run.file, lineages))
    /\ run' = [run EXCEPT !.pc = "validated"]
    /\ UNCHANGED <<df, df_columns, current_year, raised>>
    /\ UNCHANGED mapperVars
    /\ UNCHANGED annotationVars

\* print_validation_report(validation)
PrintValidationReport ==
    /\ run.pc = "validated"
    /\ IF print_validation_report(results[1]) # None
       THEN /\ raised' = Some(KeyError(print_validation_report(results[1])[1]))
            /\ run' = [run EXCEPT !.pc = "raised"]
       ELSE /\ raised' = None
            /\ run' = [run EXCEPT !.pc = "printed"]
    /\ UNCHANGED <<df, df_columns, current_year, results>>
    /\ UNCHANGED mapperVars
    /\ UNCHANGED annotationVars

\* validation_df.to_csv('franchise_validation_results.csv'); return 0
SaveValidationResults ==
    /\ run.pc = "printed"
    /\ run' = [run EXCEPT !.pc = "done",
                          !.saved = Some(results[1].relocated_franchises),
                          !.exit_code = Some(0)]
    /\ UNCHANGED <<df, df_columns, current_year, results, raised>>
    /\ UNCHANGED mapperVars
    /\ UNCHANGED annotationVars

InitReadiness ==
    /\ MapperReady("CorrectedFranchiseMapper", CorrectedFranchiseMapperLineages)
    /\ df \in ReadinessSeasons
    /\ df_columns = AllColumns
    /\ current_year = 2026
    /\ results = None
    /\ raised = None
    /\ run \in { [pc |-> "start", file |-> file, saved |-> None, exit_code |-> None] :
                   file \in { None, Some(get_analysis_ready_data(df)) } }

NextReadiness ==
    \/ ValidateRelocationAnalysisReadiness
    \/ PrintValidationReport
    \/ SaveValidationResults

SpecReadiness == InitReadiness /\ [][NextReadiness]_vars

\* the rows of the analysis-ready file
FileRows == IF run.file = None THEN <<>> ELSE run.file[1]

\* the seasons of a franchise in the file, before and after its relocation
PreSeasons(canonical_id) ==
    SelectSeq(FileRows, LAMBDA row : row.canonical_franchise = canonical_id
                                        /\ row.pre_relocation)

PostSeasons(canonical_id) ==
    SelectSeq(FileRows, LAMBDA row : row.canonical_franchise = canonical_id
                                        /\ row.post_relocation)

\* the effect size -d of an effect size d
Negated(cohens_d) ==
    [cohens_d EXCEPT !.diff = Frac(0 - cohens_d.diff.num, cohens_d.diff.den)]

\* the franchises the returned validation analyses
Analysed ==
    IF results = None \/ run.file = None THEN <<>>
    ELSE results[1].relocated_franchises

\* C22: the effect size of a franchise is antisymmetric under the swap of
\* its pre-relocation and post-relocation seasons: with the two datasets
\* exchanged the effect size is the negation of the one reported and the
\* magnitude band is the one reported
C22_EffectAntisymmetric ==
    \A k \in 1..Len(Analysed) :
        LET f == Analysed[k]
            swapped == effect_keys(PostSeasons(f.franchise), PreSeasons(f.franchise))
        IN  "effect_size" \in DOMAIN f /\ f.effect_size # None =>
                /\ swapped.effect_size = Some(Negated(f.effect_size[1]))
                /\ swapped.effect_magnitude = f.effect_magnitude

\* an effect size other than zero has been reported, in the small band
C22_Witness ==
    \E k \in 1..Len(Analysed) :
        /\ "effect_size" \in DOMAIN Analysed[k]
        /\ Analysed[k].effect_size # None
        /\ Analysed[k].effect_size[1].diff.num > 0
        /\ Analysed[k].effect_magnitude = "small"

\* C28 as stated: print_validation_report raises nothing, neither for the
\* error result nor for a success result with one or more relocated
\* franchises
C28_ReportCompletes ==
    results # None /\ (IF results[1].status = "error" THEN TRUE
                       ELSE results[1].relocated_franchises # <<>>)
        => run.pc # "raised"

-----------------------------------------------------------------------------
(* SpecSource: a mapper of either class constructed from the source's own  *)
(* table, and its query methods.                                           *)

\* every identifier either table lists, and one neither does
SourceIds ==
    UNION { Range(FranchiseMapperLineages[i].lahman_ids) :
              i \in 1..Len(FranchiseMapperLineages) }
    \cup UNION { Range(CorrectedFranchiseMapperLineages[i].lahman_ids) :
                   i \in 1..Len(CorrectedFranchiseMapperLineages) }
    \cup {DefunctId}

\* self.lineages.get(canonical_id)
lineages_get(canonical_id) ==
    IF \E i \in 1..Len(lineages) : lineages[i].canonical_id = canonical_id
    THEN Some(lineages[CHOOSE i \in 1..Len(lineages) :
                           lineages[i].canonical_id = canonical_id])
    ELSE None

\* get_relocation_years(canonical_id)
get_relocation_years(canonical_id) ==
    LET lineage == lineages_get(canonical_id)
    IN  IF lineage = None THEN <<>>
        ELSE [j \in 1..Len(lineage[1].relocations) |-> lineage[1].relocations[j].year]

GetRelocationYears(canonical_id) ==
    /\ status = "built"
    /\ lookup' = Some([canonical_id |-> canonical_id,
                       result |-> get_relocation_years(canonical_id)])
    /\ UNCHANGED <<kind, lineages, status, lahman_to_canonical, error, df,
                   df_annotated, mapped_data, calls>>
    /\ UNCHANGED validationVars

InitSource ==
    /\ kind \in Kinds
    /\ lineages = SourceLineages(kind)
    /\ status = "unbuilt"
    /\ lahman_to_canonical = <<>>
    /\ error = NoError
    /\ lookup = None
    /\ df = <<>>
    /\ df_annotated = None
    /\ mapped_data = None
    /\ calls = 0
    /\ NoValidation

NextSource ==
    \/ Construct
    \/ \E lahman_id \in SourceIds : GetCanonicalFranchise(lahman_id)
    \/ \E canonical_id \in SourceIds : GetRelocationYears(canonical_id)

SpecSource == InitSource /\ [][NextSource]_vars

\* C25: in the built registry of either class every lineage's relocation
\* list is in strictly increasing year order, no two events sharing a year,
\* so that the last element of a list is its maximum-year relocation
C25_RelocationsChronological ==
    status = "built" =>
        \A i \in 1..Len(lineages) :
            LET relocations == lineages[i].relocations
            IN  /\ \A j, k \in 1..Len(relocations) :
                       j < k => relocations[j].year < relocations[k].year
                /\ relocations # <<>> =>
                       LatestRelocation(relocations) = relocations[Len(relocations)]

\* a registry is built that holds a franchise that moved twice, and its
\* relocation years have been asked for
C25_Witness ==
    /\ status = "built"
    /\ lookup # None
    /\ "canonical_id" \in DOMAIN lookup[1]
    /\ Len(lookup[1].result) = 2

-----------------------------------------------------------------------------
(* generate_relocation_summary (corrected_franchise_mapping.py)            *)

\* relocation.from_city of the ATL and LAD entries
from_city(canonical_id, year) ==
    CASE canonical_id = "ATL" /\ year = 1953 -> "Boston"
      [] canonical_id = "ATL" /\ year = 1966 -> "Milwaukee"
      [] canonical_id = "LAD" /\ year = 1958 -> "Brooklyn"
      [] OTHER -> ""

\* the latest event taken off the list to read it
pop_latest(lineage) ==
    [lineage EXCEPT !.relocations = SubSeq(@, 1, Len(@) - 1)]

\* the lineage after max(lineage.relocations, key=lambda x: x.year), which
\* reads the list and leaves it as it is
after_max(lineage) == lineage

\* ten seasons on a side not being enough
sufficient_data_strict(pre_data, post_data) == Len(pre_data) > 10 /\ Len(post_data) > 10

\* len(pre_data) >= 10 and len(post_data) >= 10
sufficient_data(pre_data, post_data) == Len(pre_data) >= 10 /\ Len(post_data) >= 10

\* the summary of one relocated franchise that has rows
summary(franchise_rows, lineage) ==
    LET latest_relocation == LatestRelocation(lineage.relocations)
        pre_data  == SelectSeq(franchise_rows, LAMBDA row : row.pre_relocation)
        post_data == SelectSeq(franchise_rows, LAMBDA row : row.post_relocation)
    IN  [franchise |-> lineage.canonical_id,
         current_name |-> current_name(lineage.canonical_id),
         relocation_year |-> latest_relocation.year,
         from_city |-> from_city(lineage.canonical_id, latest_relocation.year),
         to_city |-> to_city(lineage.canonical_id, latest_relocation.year),
         total_seasons |-> Len(franchise_rows),
         pre_relocation_seasons |-> Len(pre_data),
         post_relocation_seasons |-> Len(post_data),
         pre_relocation_avg_wpct |->
             IF pre_data # <<>> THEN Some(mean(pre_data)) ELSE None,
         post_relocation_avg_wpct |->
             IF post_data # <<>> THEN Some(mean(post_data)) ELSE None,
         wpct_change |->
             IF pre_data # <<>> /\ post_data # <<>>
             THEN Some(FracSub(mean(post_data), mean(pre_data)))
             ELSE None,
         sufficient_data |-> sufficient_data(pre_data, post_data)]

\* summaries, the lineages from the i-th on
RECURSIVE summaries_from(_, _, _)
summaries_from(relocated_only, lins, i) ==
    IF i > Len(lins) THEN <<>>
    ELSE LET franchise_rows ==
                 SelectSeq(relocated_only,
                           LAMBDA row : row.canonical_franchise = lins[i].canonical_id)
         IN  (IF lins[i].relocations # <<>> /\ franchise_rows # <<>>
              THEN <<summary(franchise_rows, lins[i])>>
              ELSE <<>>)
             \o summaries_from(relocated_only, lins, i + 1)

\* the rows of the DataFrame the method returns
generate_relocation_summary(table) ==
    LET analysis_data == get_analysis_ready_data(table)
        relocated_only == SelectSeq(analysis_data, LAMBDA row : row.is_relocated_franchise)
    IN  summaries_from(relocated_only, lineages, 1)

\* self.lineages once the method has returned: the lineages whose latest
\* relocation it looked up
lineages_after_summary(table) ==
    LET relocated_only ==
            SelectSeq(get_analysis_ready_data(table), LAMBDA row : row.is_relocated_franchise)
    IN  [i \in 1..Len(lineages) |->
            IF /\ lineages[i].relocations # <<>>
               /\ \E k \in 1..Len(relocated_only) :
                      relocated_only[k].canonical_franchise = lineages[i].canonical_id
            THEN after_max(lineages[i])
            ELSE lineages[i]]

\* mapper.generate_relocation_summary(df), mapper a CorrectedFranchiseMapper
GenerateRelocationSummary ==
    /\ status = "built"
    /\ kind = "CorrectedFranchiseMapper"
    /\ results = None
    /\ raised = None
    /\ run.pc = "idle"
    /\ results' = Some(generate_relocation_summary(df))
    /\ lineages' = lineages_after_summary(df)
    /\ run' = [pc |-> "summarised"]
    /\ UNCHANGED <<kind, status, lahman_to_canonical, error>>
    /\ UNCHANGED <<df, df_columns, current_year, raised>>
    /\ UNCHANGED annotationVars

-----------------------------------------------------------------------------
(* SpecSummary: generate_relocation_summary and check_data_completeness    *)
(* on the same registry and table.                                         *)

\* CorrectedFranchiseMapper's ATL, LAD and HOU entries
SummaryRegistry == << OneId("ATL"), OneId("LAD"), OneId("HOU") >>

\* the Braves around 1966 under the lineage's identifier, their seasons up
\* to 1965 possibly under an identifier the registry does not list, the
\* Dodgers around 1958, and Houston's first seasons or none
SummaryTables ==
    { SeasonsAround(before_id, "ATL", 1966, pre, post)
      \o SeasonsAround("LAD", "LAD", 1958, lad[1], lad[2])
      \o SeasonRun("HOU", 1962, 1961 + hou) :
        before_id \in {"ATL", "ML1"}, pre \in 0..MaxSeasons, post \in 0..MaxSeasons,
        lad \in {<<0, 0>>, <<8, 12>>, <<10, 10>>}, hou \in {0, 2} }

InitSummary ==
    /\ MapperReady("CorrectedFranchiseMapper", SummaryRegistry)
    /\ df \in SummaryTables
    /\ df_columns = AllColumns
    /\ current_year = 2026
    /\ results = None
    /\ raised = None
    /\ run = [pc |-> "idle"]

NextSummary ==
    \/ GenerateRelocationSummary
    \/ CheckDataCompleteness

SpecSummary == InitSummary /\ [][NextSummary]_vars

\* the rows of the summary the method returned
Summaries == IF run.pc = "summarised" THEN results[1] ELSE <<>>

\* C30: for every relocated franchise that has a row in the table,
\* check_data_completeness marks it sufficient_for_analysis iff
\* generate_relocation_summary marks it sufficient_data, and in every row
\* of the summary pre_relocation_seasons + post_relocation_seasons =
\* total_seasons
C30_SufficiencyAgrees ==
    run.pc = "summarised" =>
        LET entries == insufficient_data(df, lineages)
        IN  /\ \A i \in 1..Len(lineages) :
                   /\ lineages[i].relocations # <<>>
                   /\ \E k \in 1..Len(df) : df[k].franchID \in Range(lineages[i].lahman_ids)
                   => \E e \in Range(entries), s \in Range(Summaries) :
                          /\ e.franchise = lineages[i].canonical_id
                          /\ s.franchise = lineages[i].canonical_id
                          /\ e.sufficient_for_analysis = s.sufficient_data
            /\ \A k \in 1..Len(Summaries) :
                   Summaries[k].pre_relocation_seasons + Summaries[k].post_relocation_seasons
                       = Summaries[k].total_seasons

\* a summary with one franchise that has exactly ten seasons on each side
\* and one that falls short
C30_Witness ==
    /\ \E s \in Range(Summaries) :
           /\ s.sufficient_data
           /\ s.pre_relocation_seasons = 10
           /\ s.post_relocation_seasons = 10
    /\ \E s \in Range(Summaries) : ~s.sufficient_data

-----------------------------------------------------------------------------
(* validate_data_consistency (franchise_mapping.py)                        *)

\* the orders a loop over a set can visit its elements in
Orders(S) ==
    { s \in [1..Cardinality(S) -> S] :
        \A i, j \in 1..Cardinality(S) : i # j => s[i] # s[j] }

\* sorted(years) of a set of years
RECURSIVE sorted(_)
sorted(years) ==
    IF years = {} THEN <<>>
    ELSE LET first == CHOOSE y \in years : \A z \in years : y <= z
         IN  <<first>> \o sorted(years \ {first})

\* the year gaps of one lineage's seasons
year_gaps(canonical_id, years) ==
    LET gaps == SelectSeq([i \in 1..(Len(years) - 1) |-> i],
                          LAMBDA i : years[i + 1] - years[i] > 1)
    IN  [k \in 1..Len(gaps) |->
            <<canonical_id, ": gap between ", years[gaps[k]], " and ", years[gaps[k] + 1]>>]

\* the issues the two loops over the lineages find, the lineages from the
\* i-th on: lineages without rows, year gaps, relocations without a season
\* on either side
RECURSIVE lineage_issues_from(_, _, _)
lineage_issues_from(table, lins, i) ==
    IF i > Len(lins)
    THEN [missing_franchises |-> <<>>, year_gaps |-> <<>>, invalid_relocations |-> <<>>]
    ELSE LET lineage == lins[i]
             data == SelectSeq(table, LAMBDA row : row.franchID \in Range(lineage.lahman_ids))
             years == sorted({ data[k].yearID : k \in 1..Len(data) })
             unsupported ==
                 SelectSeq(lineage.relocations,
                           LAMBDA relocation :
                               \/ SelectSeq(data, LAMBDA row : row.yearID = relocation.year - 1) = <<>>
                               \/ SelectSeq(data, LAMBDA row : row.yearID = relocation.year) = <<>>)
             rest == lineage_issues_from(table, lins, i + 1)
         IN  IF data = <<>>
             THEN [rest EXCEPT !.missing_franchises = <<lineage.canonical_id>> \o @]
             ELSE [rest EXCEPT
                      !.year_gaps = year_gaps(lineage.canonical_id, years) \o @,
                      !.invalid_relocations =
                          [k \in 1..Len(unsupported) |->
                              <<lineage.canonical_id, ": Missing data around ",
                                unsupported[k].year, " relocation">>] \o @]

\* df_mapped: the table with the canonical_franchise column assigned
df_mapped(table) ==
    [k \in 1..Len(table) |->
        AssignColumns(table[k], [canonical_franchise |-> MapCanonical(table[k].franchID)])]

\* the seasons a franchise has more than one row for, franchises from the
\* i-th lineage on (groupby sorts its keys, and the model's registries list
\* their franchises in that order)
RECURSIVE duplicate_seasons_from(_, _, _)
duplicate_seasons_from(mapped, lins, i) ==
    IF i > Len(lins) THEN <<>>
    ELSE LET franchise == lins[i].canonical_id
             rows == SelectSeq(mapped, LAMBDA row : row.canonical_franchise = franchise)
             count(year) == Len(SelectSeq(rows, LAMBDA row : row.yearID = year))
             years == SelectSeq(sorted({ rows[k].yearID : k \in 1..Len(rows) }),
                                LAMBDA year : count(year) > 1)
         IN  [k \in 1..Len(years) |->
                 <<franchise, " ", years[k], ": ", count(years[k]), " entries">>]
             \o duplicate_seasons_from(mapped, lins, i + 1)

\* issues, with the identifiers of the table visited in the order ids
validate_data_consistency(table, ids) ==
    LET found == lineage_issues_from(table, lineages, 1)
    IN  [missing_franchises |-> found.missing_franchises,
         unmapped_lahman_ids |->
             SelectSeq(ids, LAMBDA fid : ~DictHas(lahman_to_canonical, fid)),
         year_gaps |-> found.year_gaps,
         duplicate_seasons |-> duplicate_seasons_from(df_mapped(table), lineages, 1),
         invalid_relocations |-> found.invalid_relocations]

\* mapper.validate_data_consistency(df), mapper a FranchiseMapper; a loop
\* over set(df['franchID'].unique()) visits the identifiers in any order
ValidateDataConsistency ==
    /\ status = "built"
    /\ kind = "FranchiseMapper"
    /\ results = None
    /\ raised = None
    /\ \E ids \in Orders({ df[k].franchID : k \in 1..Len(df) }) :
           results' = Some(validate_data_consistency(df, ids))
    /\ df' = caller_table(df, df_copy(df), df_mapped(df))
    /\ UNCHANGED <<df_columns, current_year, raised, run>>
    /\ UNCHANGED mapperVars
    /\ UNCHANGED annotationVars

-----------------------------------------------------------------------------
(* SpecFrame: the annotators, the validation checks and the summary        *)
(* functions called on one built mapper and one table of the caller.       *)

\* the ATL entry of the mapper's class and the HOU entry
FrameRegistry(k) ==
    << FranchiseLineage("ATL", AtlantaIds(k), SourceRelocations("ATL")),
       FranchiseLineage("HOU", <<"HOU">>, SourceRelocations("HOU")) >>

\* seasons of the Braves on either side of the move to Atlanta, under the
\* identifiers of either class, one of Houston and one of a franchise no
\* registry lists
FrameRows ==
    { LoadedRecord(1965, "ML1", "ML1", "NL", 86, 76),
      LoadedRecord(1965, "ML1", "ATL", "NL", 86, 76),
      LoadedRecord(1966, "ATL", "ATL", "NL", 85, 77),
      LoadedRecord(1962, "HOU", "HOU", "NL", 64, 96),
      LoadedRecord(1966, "KC1", DefunctId, "AL", 74, 86) }

InitFrame ==
    /\ \E k \in Kinds : MapperReady(k, FrameRegistry(k))
    /\ df \in TablesOf(FrameRows)
    /\ df_columns = AllColumns
    /\ current_year = 2026
    /\ results = None
    /\ raised = None
    /\ run = [pc |-> "idle"]

NextFrame ==
    \/ CreateAnnotatedDataset
    \/ GetAnalysisReadyData
    \/ GenerateRelocationSummary
    \/ ValidateDataConsistency
    \/ ValidateRelocationData
    \/ ValidateBasicDataQuality
    \/ ValidateHistoricalAccuracy
    \/ ValidateAgainstExternalSources
    \/ ValidateFranchiseContinuity
    \/ CheckDataCompleteness
    \/ RunAllValidations

SpecFrame == InitFrame /\ [][NextFrame]_vars

\* C23: once the mapper is built, no call of an annotator, a validation
\* check or a summary function changes its lineages or its
\* identifier-to-canonical map
C23_RegistryReadOnly ==
    [][status = "built" =>
          /\ lineages' = lineages
          /\ lahman_to_canonical' = lahman_to_canonical
          /\ status' = "built"]_vars

\* the summary has been made of a table that holds seasons of the Braves
C23_Witness ==
    /\ run.pc = "summarised"
    /\ results # None
    /\ results[1] # <<>>

\* C24: no call of an annotator or of a validation check changes the
\* caller's table: it has the same rows, columns and values after the call
C24_InputUntouched ==
    [][df' = df /\ df_columns' = df_columns]_vars

\* create_annotated_dataset has returned a table with the derived fields
\* for a caller's table that holds a season
C24_Witness ==
    /\ df_annotated # None
    /\ df # <<>>
    /\ \A k \in 1..Len(df_annotated[1]) :
           "pre_relocation" \in DOMAIN df_annotated[1][k]

-----------------------------------------------------------------------------
(* The identifier check of validate_franchise_continuity.                  *)

\* the raw identifiers of a list of rows
Identifiers(rows) == { rows[i].franchID : i \in 1..Len(rows) }

\* what a lineage's own data says of its identifier at a relocation: a
\* lineage that lists one raw identifier per home expects it to change, a
\* lineage that lists a single identifier expects it to stay
ExpectsChange(lineage) == Len(lineage.lahman_ids) > 1

\* a warning franchise_id_continuity finding for a lineage's boundary is in
\* a list
IdentifierWarning(findings, canonical_id, year) ==
    \E i \in 1..Len(findings) :
        /\ findings[i].check_name = "franchise_id_continuity"
        /\ findings[i].status = "warning"
        /\ findings[i].message[1] = canonical_id
        /\ findings[i].message[3] = year

\* C26 as stated: at every relocation boundary of every lineage where the
\* (year - 1) row and the relocation-year row exist (each side under one
\* identifier), a warning franchise_id_continuity finding is emitted iff
\* the two identifiers contradict what the lineage's data expects: equal
\* where a change is expected, different where none is
C26_ExpectationPerLineage ==
    Returned =>
        \A i \in 1..Len(lineages) : \A j \in 1..Len(lineages[i].relocations) :
            LET year == lineages[i].relocations[j].year
                pre  == Identifiers(LineageSeasons(lineages[i], year - 1))
                post == Identifiers(LineageSeasons(lineages[i], year))
            IN  Cardinality(pre) = 1 /\ Cardinality(post) = 1 =>
                    (IdentifierWarning(results[1], lineages[i].canonical_id, year)
                         <=> IF ExpectsChange(lineages[i]) THEN pre = post ELSE pre # post)

-----------------------------------------------------------------------------
(* --skip-validation of the enhanced pipeline.                             *)

\* C27 as stated: in a run of main with --skip-validation no validation
\* check is executed, so run_all_validations returns no findings at any
\* point of the run, and a run that returns has written the output
C27_SkipValidationSkips ==
    run.skip_validation =>
        /\ results = None
        /\ run.pc = "done" => run.output # None

-----------------------------------------------------------------------------
(* The two annotators on the same mapper and table.                        *)

\* the six fields both annotators derive
SixFields(row) ==
    [canonical_franchise |-> row.canonical_franchise,
     is_relocated_franchise |-> row.is_relocated_franchise,
     relocation_year |-> row.relocation_year,
     pre_relocation |-> row.pre_relocation,
     post_relocation |-> row.post_relocation,
     years_since_relocation |-> row.years_since_relocation]

\* the six fields of the rows of a table whose franchID resolves, with the
\* input columns that tell the rows apart
ResolvedSix(rows) ==
    LET resolved == SelectSeq(rows, LAMBDA row : Resolves(row.franchID))
    IN  [k \in 1..Len(resolved) |-> InputColumns(resolved[k]) @@ SixFields(resolved[k])]

\* C29: for the same mapper and the same table, create_annotated_dataset
\* and get_analysis_ready_data assign the same canonical_franchise,
\* is_relocated_franchise, relocation_year, pre_relocation, post_relocation
\* and years_since_relocation to every row whose franchID resolves
C29_AnnotatorsAgree ==
    /\ df_annotated # None =>
           ResolvedSix(df_annotated[1]) = ResolvedSix(get_analysis_ready_data(df))
    /\ mapped_data # None =>
           ResolvedSix(mapped_data[1]) = ResolvedSix(create_annotated_dataset(df))

\* get_analysis_ready_data has annotated a table that holds a season from
\* before the franchise's latest relocation and a row that does not resolve
C29_Witness ==
    /\ mapped_data # None
    /\ \E k \in 1..Len(mapped_data[1]) : mapped_data[1][k].pre_relocation
    /\ \E k \in 1..Len(df) : ~Resolves(df[k].franchID)

====
